---- MODULE Spec2Model ----
(***************************************************************************)
(* The job pipeline of audible-downloader: the SQLite job store (db.py),   *)
(* the download and convert workers, the startup recovery (rollback and    *)
(* orphan sweep) and the chapter flattener (worker.py).                    *)
(***************************************************************************)
EXTENDS Integers, Sequences, FiniteSets, TLC

(* ------------------------------ bounds --------------------------------- *)
\* jobs ever created (ids 1..MaxJobs; AUTOINCREMENT never reuses an id)
MaxJobs == 2
\* process deaths followed by a restart
MaxCrashes == 1
\* chunks of the audio stream (content-length, in chunks)
TotalChunks == 2
\* os.cpu_count() of the machine
CpuCount == 2
\* the polling threads of one worker type that are followed
MaxThreads == 2

\* registered users, content ids of their libraries, titles and authors the
\* library reports for them
Users == {1, 2}
Asins == {"X1", "X2"}
Titles == {"T1", "T2"}
Authors == {"A1", "A2"}
\* str(e) of an exception raised by a network call: httpx timeouts and
\* audible's NotResponding carry no message
NetMsgs == {"", "503 Service Unavailable"}
\* str(e) of an sqlite3.Error or OSError
SysMsgs == {"database is locked"}

(* --------------------------- db.py: enums ------------------------------ *)
NULL == "NULL"

PENDING == "pending"
RUNNING == "running"
COMPLETED == "completed"
FAILED == "failed"

PENDING_DOWNLOAD == "pending_download"
DOWNLOADING == "downloading"
PENDING_CONVERT == "pending_convert"
CONVERTING == "converting"

JobStage == {PENDING_DOWNLOAD, DOWNLOADING, PENDING_CONVERT, CONVERTING, COMPLETED, FAILED}
JobStatus == {PENDING, RUNNING, COMPLETED, FAILED}

VARIABLES
    jobs,       \* table jobs: id -> row
    books,      \* table books: the set of its rows
    next_id,    \* jobs.id AUTOINCREMENT
    clock,      \* CURRENT_TIMESTAMP, in seconds
    fs,         \* DOWNLOADS_DIR: directory name -> contents
    phase,      \* position of the process in Worker.start()
    reset_ok,   \* reset_stuck_jobs() returned without raising
    dl,         \* DownloadWorker thread: pc and locals
    cv,         \* ConvertWorker thread: pc and locals
    crashes,    \* process deaths so far
    workers,    \* the _running flag and the live polling threads of each worker
    env         \* the environment in scope: which outcomes the collaborators
                \* (content provider, disk, store, administrator) may produce

vars == <<jobs, books, next_id, clock, fs, phase, reset_ok, dl, cv, crashes, workers, env>>

(* ----------------------- db.py: job operations ------------------------- *)
\* the row create_job inserts: status and stage as passed, the other columns
\* from the schema defaults
NewJobRow(user_id, asin, title, now) ==
    [user_id |-> user_id, asin |-> asin, title |-> title,
     status |-> PENDING, stage |-> PENDING_DOWNLOAD,
     progress |-> 0, progress_detail |-> NULL, error |-> NULL,
     created_at |-> now, completed_at |-> NULL]

create_job(js, id, user_id, asin, title, now) ==
    [i \in DOMAIN js \cup {id} |->
        IF i = id THEN NewJobRow(user_id, asin, title, now) ELSE js[i]]

\* SELECT * FROM jobs WHERE stage = ? ORDER BY created_at ASC LIMIT 1:
\* the rows the query may return (SQL leaves the order of rows with equal
\* created_at unspecified); empty when no row matches
get_job_by_stage(js, stage) ==
    {i \in DOMAIN js :
        /\ js[i].stage = stage
        /\ \A k \in DOMAIN js : js[k].stage = stage => js[i].created_at <= js[k].created_at}

\* mutant: CONVERTING is not counted among the running stages
StatusForStage_only_downloading(stage) ==
    IF stage = COMPLETED THEN COMPLETED
    ELSE IF stage = FAILED THEN FAILED
    ELSE IF stage \in {DOWNLOADING} THEN RUNNING
    ELSE PENDING

\* the status update_job_stage writes with a stage
StatusForStage(stage) ==
    IF stage = COMPLETED THEN COMPLETED
    ELSE IF stage = FAILED THEN FAILED
    ELSE IF stage \in {DOWNLOADING, CONVERTING} THEN RUNNING
    ELSE PENDING

\* mutant: the COMPLETED branch writes the progress and detail it was passed
update_job_stage_keeps_args(js, job_id, stage, progress, error, progress_detail) ==
    [i \in DOMAIN js |->
        IF i # job_id THEN js[i]
        ELSE [js[i] EXCEPT !.status = StatusForStage(stage), !.stage = stage,
                           !.progress = progress, !.error = error,
                           !.progress_detail = IF stage = FAILED THEN NULL
                                               ELSE progress_detail,
                           !.completed_at = IF stage \in {COMPLETED, FAILED}
                                            THEN "now" ELSE @]]

\* mutant: the FAILED write records status and error and leaves the stage
update_job_stage_error_only(js, job_id, stage, progress, error, progress_detail) ==
    [i \in DOMAIN js |->
        IF i # job_id THEN js[i]
        ELSE IF stage = COMPLETED THEN
            [js[i] EXCEPT !.status = COMPLETED, !.stage = stage, !.progress = 100,
                          !.error = error, !.progress_detail = NULL,
                          !.completed_at = "now"]
        ELSE IF stage = FAILED THEN
            [js[i] EXCEPT !.status = FAILED, !.progress = progress,
                          !.error = error, !.progress_detail = NULL,
                          !.completed_at = "now"]
        ELSE
            [js[i] EXCEPT !.status = StatusForStage(stage), !.stage = stage,
                          !.progress = progress, !.error = error,
                          !.progress_detail = progress_detail]]

\* UPDATE jobs SET ... WHERE id = ?  (no row, no change, no error)
update_job_stage(js, job_id, stage, progress, error, progress_detail) ==
    [i \in DOMAIN js |->
        IF i # job_id THEN js[i]
        ELSE IF stage = COMPLETED THEN
            [js[i] EXCEPT !.status = COMPLETED, !.stage = stage, !.progress = 100,
                          !.error = error, !.progress_detail = NULL,
                          !.completed_at = "now"]
        ELSE IF stage = FAILED THEN
            [js[i] EXCEPT !.status = FAILED, !.stage = stage, !.progress = progress,
                          !.error = error, !.progress_detail = NULL,
                          !.completed_at = "now"]
        ELSE
            [js[i] EXCEPT !.status = StatusForStage(stage), !.stage = stage,
                          !.progress = progress, !.error = error,
                          !.progress_detail = progress_detail]]

\* DELETE FROM jobs WHERE id = ? AND user_id = ?
delete_job(js, job_id, user_id) ==
    [i \in {k \in DOMAIN js : ~(k = job_id /\ js[k].user_id = user_id)} |-> js[i]]

\* mutant: the second UPDATE requeues converting jobs for download
reset_stuck_jobs_to_download(js) ==
    [i \in DOMAIN js |->
        IF js[i].stage \in {DOWNLOADING, CONVERTING} THEN
            [js[i] EXCEPT !.stage = PENDING_DOWNLOAD, !.status = PENDING,
                          !.progress = 0, !.progress_detail = NULL]
        ELSE js[i]]

\* mutant: failed jobs are requeued for download too
reset_stuck_jobs_retry_failed(js) ==
    [i \in DOMAIN js |->
        IF js[i].stage \in {DOWNLOADING, FAILED} THEN
            [js[i] EXCEPT !.stage = PENDING_DOWNLOAD, !.status = PENDING,
                          !.progress = 0, !.progress_detail = NULL]
        ELSE IF js[i].stage = CONVERTING THEN
            [js[i] EXCEPT !.stage = PENDING_CONVERT, !.status = PENDING,
                          !.progress = 50, !.progress_detail = NULL]
        ELSE js[i]]

\* mutant: the rollback leaves progress and detail as they were
reset_stuck_jobs_keeps_progress(js) ==
    [i \in DOMAIN js |->
        IF js[i].stage = DOWNLOADING THEN
            [js[i] EXCEPT !.stage = PENDING_DOWNLOAD, !.status = PENDING]
        ELSE IF js[i].stage = CONVERTING THEN
            [js[i] EXCEPT !.stage = PENDING_CONVERT, !.status = PENDING]
        ELSE js[i]]

\* mutant: only the first UPDATE, converting jobs stay as they are
reset_stuck_jobs_only_downloading(js) ==
    [i \in DOMAIN js |->
        IF js[i].stage = DOWNLOADING THEN
            [js[i] EXCEPT !.stage = PENDING_DOWNLOAD, !.status = PENDING,
                          !.progress = 0, !.progress_detail = NULL]
        ELSE js[i]]

\* mutant: the rollback stamps the rows it requeues
reset_stuck_jobs_stamps(js) ==
    [i \in DOMAIN js |->
        IF js[i].stage = DOWNLOADING THEN
            [js[i] EXCEPT !.stage = PENDING_DOWNLOAD, !.status = PENDING,
                          !.progress = 0, !.progress_detail = NULL,
                          !.completed_at = "now"]
        ELSE IF js[i].stage = CONVERTING THEN
            [js[i] EXCEPT !.stage = PENDING_CONVERT, !.status = PENDING,
                          !.progress = 50, !.progress_detail = NULL,
                          !.completed_at = "now"]
        ELSE js[i]]

\* both UPDATEs of reset_stuck_jobs, committed together
reset_stuck_jobs(js) ==
    [i \in DOMAIN js |->
        IF js[i].stage = DOWNLOADING THEN
            [js[i] EXCEPT !.stage = PENDING_DOWNLOAD, !.status = PENDING,
                          !.progress = 0, !.progress_detail = NULL]
        ELSE IF js[i].stage = CONVERTING THEN
            [js[i] EXCEPT !.stage = PENDING_CONVERT, !.status = PENDING,
                          !.progress = 50, !.progress_detail = NULL]
        ELSE js[i]]

(* ----------------------- db.py: book operations ------------------------ *)
\* mutant: a plain INSERT, without the ON CONFLICT clause and the constraint
save_book_inserts(bs, user_id, asin, title, author, path) ==
    bs \cup {[user_id |-> user_id, asin |-> asin, title |-> title,
              author |-> author, path |-> path]}

\* INSERT ... ON CONFLICT(user_id, asin) DO UPDATE SET path, title, author
\* (the row with that user_id and asin is replaced, or the row is added)
save_book(bs, user_id, asin, title, author, path) ==
    {b \in bs : ~(b.user_id = user_id /\ b.asin = asin)}
        \cup {[user_id |-> user_id, asin |-> asin, title |-> title,
                author |-> author, path |-> path]}

\* SELECT path FROM books
get_all_book_paths(bs) == {b.path : b \in bs}

(* ------------------------ worker.py: filesystem ------------------------ *)
DOWNLOADS_DIR == <<"data", "downloads">>

\* book_dir = DOWNLOADS_DIR / str(job.id), and str(book_dir)
BookDir(job_id) == DOWNLOADS_DIR \o <<ToString(job_id)>>

NoEntries == [n \in {} |-> NULL]
EmptyDir == [files |-> NoEntries, dirs |-> NoEntries]

Put(f, k, v) == [x \in DOMAIN f \cup {k} |-> IF x = k THEN v ELSE f[x]]

DirExists(fsys, id) == id \in DOMAIN fsys
FileExists(fsys, id, name) == id \in DOMAIN fsys /\ name \in DOMAIN fsys[id].files
SubdirExists(fsys, id, name) == id \in DOMAIN fsys /\ name \in DOMAIN fsys[id].dirs

\* mkdir(parents=True, exist_ok=True)
Mkdir(fsys, id) == IF id \in DOMAIN fsys THEN fsys ELSE Put(fsys, id, EmptyDir)

\* open(path, "w") and write: the file is replaced
WriteFile(fsys, id, name, content) ==
    [fsys EXCEPT ![id].files = Put(@, name, content)]

\* mp3_dir.mkdir(exist_ok=True)
MkSubdir(fsys, id, name) ==
    IF name \in DOMAIN fsys[id].dirs THEN fsys
    ELSE [fsys EXCEPT ![id].dirs = Put(@, name, NoEntries)]

\* a file cannot be created in a directory that is not there
WriteSubFile(fsys, id, dir, name, content) ==
    IF dir \in DOMAIN fsys[id].dirs
    THEN [fsys EXCEPT ![id].dirs[dir] = Put(@, name, content)]
    ELSE fsys

\* mutant: the sweep removes the directories one level below DOWNLOADS_DIR
\* whose path is not a Book path
cleanup_orphaned_directories_one_level(fsys, known_paths) ==
    [book_dir \in {n \in DOMAIN fsys : BookDir(n) \in known_paths} |-> fsys[book_dir]]

\* cleanup_orphaned_directories: every directory two levels below
\* DOWNLOADS_DIR (book_dir in user_dir.iterdir() for user_dir in
\* DOWNLOADS_DIR.iterdir()) whose path is not a Book path is removed
cleanup_orphaned_directories(fsys, known_paths) ==
    [user_dir \in DOMAIN fsys |->
        [fsys[user_dir] EXCEPT !.dirs =
            [book_dir \in {n \in DOMAIN fsys[user_dir].dirs :
                              BookDir(user_dir) \o <<n>> \in known_paths}
                |-> fsys[user_dir].dirs[book_dir]]]]

(* --------------------- worker.py: chapter flattener -------------------- *)
\* dict.get(key, default)
Get(d, key, default) == IF key \in DOMAIN d THEN d[key] ELSE default

\* "chapters" in chapter and chapter["chapters"]
HasChildren(chapter) == "chapters" \in DOMAIN chapter /\ chapter["chapters"] # <<>>

\* mutant: an intro of exactly 100 ms is emitted too
RECURSIVE _flatten_chapters_intro_at_100(_, _)
_flatten_chapters_intro_at_100(chapters, parent_title) ==
    IF chapters = <<>> THEN <<>>
    ELSE
        LET chapter == Head(chapters)
            title == Get(chapter, "title", "")
            full_title == IF parent_title \notin {NULL, ""}
                          THEN parent_title \o " - " \o title
                          ELSE title
            emitted ==
                IF HasChildren(chapter) THEN
                    LET parent_start == Get(chapter, "start_offset_ms", 0)
                        first_child_start == Get(chapter["chapters"][1], "start_offset_ms", 0)
                        intro_length == first_child_start - parent_start
                        intro_chapter == [title |-> full_title,
                                          start_offset_ms |-> parent_start,
                                          length_ms |-> intro_length]
                    IN  (IF intro_length >= 100 THEN <<intro_chapter>> ELSE <<>>)
                        \o _flatten_chapters_intro_at_100(chapter["chapters"], full_title)
                ELSE <<Put(chapter, "title", full_title)>>
        IN  emitted \o _flatten_chapters_intro_at_100(Tail(chapters), parent_title)

\* mutant: nested chapters are qualified by their parent's own title only
RECURSIVE _flatten_chapters_parent_only(_, _)
_flatten_chapters_parent_only(chapters, parent_title) ==
    IF chapters = <<>> THEN <<>>
    ELSE
        LET chapter == Head(chapters)
            title == Get(chapter, "title", "")
            full_title == IF parent_title \notin {NULL, ""}
                          THEN parent_title \o " - " \o title
                          ELSE title
            emitted ==
                IF HasChildren(chapter) THEN
                    LET parent_start == Get(chapter, "start_offset_ms", 0)
                        first_child_start == Get(chapter["chapters"][1], "start_offset_ms", 0)
                        intro_length == first_child_start - parent_start
                        intro_chapter == [title |-> full_title,
                                          start_offset_ms |-> parent_start,
                                          length_ms |-> intro_length]
                    IN  (IF intro_length > 100 THEN <<intro_chapter>> ELSE <<>>)
                        \o _flatten_chapters_parent_only(chapter["chapters"], title)
                ELSE <<Put(chapter, "title", full_title)>>
        IN  emitted \o _flatten_chapters_parent_only(Tail(chapters), parent_title)

\* mutant: chapters of length 0 are left out
RECURSIVE _flatten_chapters_skips_empty(_, _)
_flatten_chapters_skips_empty(chapters, parent_title) ==
    IF chapters = <<>> THEN <<>>
    ELSE
        LET chapter == Head(chapters)
            title == Get(chapter, "title", "")
            full_title == IF parent_title \notin {NULL, ""}
                          THEN parent_title \o " - " \o title
                          ELSE title
            emitted ==
                IF HasChildren(chapter) THEN
                    LET parent_start == Get(chapter, "start_offset_ms", 0)
                        first_child_start == Get(chapter["chapters"][1], "start_offset_ms", 0)
                        intro_length == first_child_start - parent_start
                        intro_chapter == [title |-> full_title,
                                          start_offset_ms |-> parent_start,
                                          length_ms |-> intro_length]
                    IN  (IF intro_length > 100 THEN <<intro_chapter>> ELSE <<>>)
                        \o _flatten_chapters_skips_empty(chapter["chapters"], full_title)
                ELSE IF Get(chapter, "length_ms", 0) = 0 THEN <<>>
                ELSE <<Put(chapter, "title", full_title)>>
        IN  emitted \o _flatten_chapters_skips_empty(Tail(chapters), parent_title)

\* mutant: the intro segment is appended after the nested chapters
RECURSIVE _flatten_chapters_intro_last(_, _)
_flatten_chapters_intro_last(chapters, parent_title) ==
    IF chapters = <<>> THEN <<>>
    ELSE
        LET chapter == Head(chapters)
            title == Get(chapter, "title", "")
            full_title == IF parent_title \notin {NULL, ""}
                          THEN parent_title \o " - " \o title
                          ELSE title
            emitted ==
                IF HasChildren(chapter) THEN
                    LET parent_start == Get(chapter, "start_offset_ms", 0)
                        first_child_start == Get(chapter["chapters"][1], "start_offset_ms", 0)
                        intro_length == first_child_start - parent_start
                        intro_chapter == [title |-> full_title,
                                          start_offset_ms |-> parent_start,
                                          length_ms |-> intro_length]
                    IN  _flatten_chapters_intro_last(chapter["chapters"], full_title)
                        \o (IF intro_length > 100 THEN <<intro_chapter>> ELSE <<>>)
                ELSE <<Put(chapter, "title", full_title)>>
        IN  emitted \o _flatten_chapters_intro_last(Tail(chapters), parent_title)

RECURSIVE _flatten_chapters(_, _)
_flatten_chapters(chapters, parent_title) ==
    IF chapters = <<>> THEN <<>>
    ELSE
        LET chapter == Head(chapters)
            title == Get(chapter, "title", "")
            full_title == IF parent_title \notin {NULL, ""}
                          THEN parent_title \o " - " \o title
                          ELSE title
            emitted ==
                IF HasChildren(chapter) THEN
                    LET parent_start == Get(chapter, "start_offset_ms", 0)
                        first_child_start == Get(chapter["chapters"][1], "start_offset_ms", 0)
                        intro_length == first_child_start - parent_start
                        intro_chapter == [title |-> full_title,
                                          start_offset_ms |-> parent_start,
                                          length_ms |-> intro_length]
                    IN  (IF intro_length > 100 THEN <<intro_chapter>> ELSE <<>>)
                        \o _flatten_chapters(chapter["chapters"], full_title)
                ELSE <<Put(chapter, "title", full_title)>>
        IN  emitted \o _flatten_chapters(Tail(chapters), parent_title)

Leaf(title, start, length) ==
    [title |-> title, start_offset_ms |-> start, length_ms |-> length]

\* chapter_info["chapters"] documents the content provider returns
ChapterDocs == { <<Leaf("Ch1", 0, 1000), Leaf("Ch:2", 1000, 1000)>> }

(* ----------------------- process start and death ----------------------- *)
NoJob == [id |-> 0, user_id |-> 0, asin |-> "", title |-> ""]
JobOf(js, id) == [id |-> id, user_id |-> js[id].user_id, asin |-> js[id].asin,
                  title |-> js[id].title]

DlIdle == [pc |-> "poll", job |-> NoJob, is_aaxc |-> FALSE, url |-> NULL,
           total |-> 0, downloaded |-> 0, err |-> NULL]
CvIdle == [pc |-> "poll", job |-> NoJob, meta |-> NULL, chapters |-> <<>>,
           tasks |-> <<>>, invoked |-> {}, seen |-> {}, completed |-> 0, err |-> NULL]

\* DownloadWorker.__init__ and ConvertWorker.__init__: the flag is clear and
\* there is no thread
NoWorkers == [dl_running |-> FALSE, cv_running |-> FALSE, dl_threads |-> 0, cv_threads |-> 0]

\* DownloadWorker.start and ConvertWorker.start, lines 54-59 and 207-212:
\* nothing when the flag is set; otherwise the flag is set and a new thread
\* runs _run
StartWorkers(w) ==
    [dl_running |-> TRUE, cv_running |-> TRUE,
     dl_threads |-> IF w.dl_running THEN w.dl_threads ELSE w.dl_threads + 1,
     cv_threads |-> IF w.cv_running THEN w.cv_threads ELSE w.cv_threads + 1]

\* the state after init_db() on an empty data directory, Worker.start() next
InitStore ==
    /\ jobs = [i \in {} |-> NULL]
    /\ books = {}
    /\ next_id = 1
    /\ clock = 1
    /\ fs = [i \in {} |-> NULL]
    /\ phase = "reset"
    /\ reset_ok = TRUE
    /\ dl = DlIdle
    /\ cv = CvIdle
    /\ crashes = 0
    /\ workers = NoWorkers

\* the whole pipeline: the content provider answers with the voucher-mode
\* descriptor and a complete license; network calls, disk and store may fail
PipelineEnv ==
    [max_jobs |-> MaxJobs, max_crashes |-> MaxCrashes,
     users |-> {1}, asins |-> {"X1"}, titles |-> {"T1"}, authors |-> {"A1"},
     net_msgs |-> NetMsgs,
     sys_msgs |-> SysMsgs,
     item_missing |-> TRUE,
     descriptors |-> {"aaxc"},
     docs |-> ChapterDocs \cup {<<>>},
     covers |-> {TRUE},
     cover_url_raises |-> FALSE,
     content_lengths |-> {TotalChunks},
     activation |-> {TRUE},
     ffmpeg_fails |-> TRUE,
     store_faults |-> TRUE]

Init == InitStore /\ env = PipelineEnv

\* a store write (UPDATE/INSERT and commit) that raises sqlite3.Error
StoreRaises == env.store_faults

\* Worker.start, lines 455-458: the rollback, or its exception caught and printed
StartReset ==
    /\ phase = "reset"
    /\ phase' = "sweep"
    /\ \/ jobs' = reset_stuck_jobs(jobs) /\ reset_ok' = TRUE
       \/ StoreRaises /\ jobs' = jobs /\ reset_ok' = FALSE
    /\ UNCHANGED <<books, next_id, clock, fs, dl, cv, crashes, workers, env>>

\* Worker.start, lines 461-467: the sweep, or its exception caught and printed
\* (get_all_book_paths raised before anything was removed), then both worker
\* threads start
StartSweep ==
    /\ phase = "sweep"
    /\ \/ fs' = cleanup_orphaned_directories(fs, get_all_book_paths(books))
       \/ StoreRaises /\ fs' = fs
    /\ phase' = "running"
    /\ workers' = StartWorkers(workers)
    /\ UNCHANGED <<jobs, books, next_id, clock, reset_ok, dl, cv, crashes, env>>

\* the process dies (kill, power loss, or exit while a daemon worker thread is
\* mid-job) and is started again: memory is lost, the store and the disk stay
Crash ==
    /\ crashes < env.max_crashes
    /\ crashes' = crashes + 1
    /\ phase' = "reset"
    /\ reset_ok' = TRUE
    /\ dl' = DlIdle
    /\ cv' = CvIdle
    /\ workers' = NoWorkers
    /\ UNCHANGED <<jobs, books, next_id, clock, fs, env>>

\* web.start_download -> db.create_job; CURRENT_TIMESTAMP has a resolution of
\* one second, so a job may share its created_at with the job before it
SubmitJob ==
    /\ phase = "running"
    /\ next_id <= env.max_jobs
    /\ \E user_id \in env.users, asin \in env.asins, title \in env.titles,
          now \in (IF next_id = 1 THEN {clock} ELSE {clock, clock + 1}) :
        /\ jobs' = create_job(jobs, next_id, user_id, asin, title, now)
        /\ clock' = now
    /\ next_id' = next_id + 1
    /\ UNCHANGED <<books, fs, phase, reset_ok, dl, cv, crashes, workers, env>>

\* a thread of the worker is running _run
DlAlive == workers.dl_threads > 0
CvAlive == workers.cv_threads > 0

\* DownloadWorker._running and ConvertWorker._running
DownloadRunning == workers.dl_running
ConvertRunning == workers.cv_running

(* ---------------------------- DownloadWorker --------------------------- *)
\* _run, line 69: the claim query
DlPoll ==
    /\ DownloadRunning /\ dl.pc = "poll"
    /\ \E id \in get_job_by_stage(jobs, PENDING_DOWNLOAD) :
        dl' = [DlIdle EXCEPT !.pc = "claimed", !.job = JobOf(jobs, id)]
    /\ UNCHANGED <<jobs, books, next_id, clock, fs, phase, reset_ok, cv, crashes, workers, env>>

\* _process_job, line 80 (outside the try: an error goes to _run's handler)
DlMarkDownloading ==
    /\ DlAlive /\ dl.pc = "claimed"
    /\ \/ /\ jobs' = update_job_stage(jobs, dl.job.id, DOWNLOADING, 0, NULL, NULL)
          /\ dl' = [dl EXCEPT !.pc = "mkdir"]
       \/ /\ StoreRaises
          /\ jobs' = jobs
          /\ dl' = DlIdle
    /\ UNCHANGED <<books, next_id, clock, fs, phase, reset_ok, cv, crashes, workers, env>>

\* an exception inside the try of _process_job
DlRaise(msg) == dl' = [dl EXCEPT !.pc = "failing", !.err = msg]

\* lines 83-103: user lookup, Authenticator, mkdir, progress 5
DlMkdir ==
    /\ DlAlive /\ dl.pc = "mkdir"
    /\ \/ /\ dl.job.user_id \in Users
          /\ fs' = Mkdir(fs, dl.job.id)
          /\ jobs' = update_job_stage(jobs, dl.job.id, DOWNLOADING, 5, NULL, NULL)
          /\ dl' = [dl EXCEPT !.pc = "library"]
       \/ /\ IF dl.job.user_id \notin Users
             THEN DlRaise("User not found")
             ELSE \E msg \in env.sys_msgs : DlRaise(msg)
          /\ UNCHANGED <<jobs, fs>>
    /\ UNCHANGED <<books, next_id, clock, phase, reset_ok, cv, crashes, workers, env>>

\* _download, lines 105-119: library sync, item lookup, progress 10
DlLibrary ==
    /\ DlAlive /\ dl.pc = "library"
    /\ \/ /\ jobs' = update_job_stage(jobs, dl.job.id, DOWNLOADING, 10, NULL, NULL)
          /\ dl' = [dl EXCEPT !.pc = "descriptor"]
       \/ /\ env.item_missing
          /\ DlRaise("Book " \o dl.job.asin \o " not found in library")
          /\ jobs' = jobs
       \/ /\ \E msg \in env.net_msgs : DlRaise(msg)
          /\ jobs' = jobs
    /\ UNCHANGED <<books, next_id, clock, fs, phase, reset_ok, cv, crashes, workers, env>>

\* _download, lines 121-134: AAXC first, then AAX; progress 15
DlDescriptor ==
    /\ DlAlive /\ dl.pc = "descriptor"
    /\ \/ \* get_aaxc_url succeeded and the voucher was written: a license with
          \* key and iv ("aaxc"), or one without them ("aaxc_incomplete")
          /\ \E d \in env.descriptors \cap {"aaxc", "aaxc_incomplete"} :
                fs' = WriteFile(fs, dl.job.id, "voucher.json",
                                IF d = "aaxc" THEN "complete" ELSE "incomplete")
          /\ jobs' = update_job_stage(jobs, dl.job.id, DOWNLOADING, 15, NULL, NULL)
          /\ dl' = [dl EXCEPT !.pc = "open", !.is_aaxc = TRUE, !.url = "aaxc"]
       \/ \* get_aaxc_url raised: is_aaxc is still False, get_aax_url succeeded
          /\ "aax" \in env.descriptors
          /\ fs' = fs
          /\ jobs' = update_job_stage(jobs, dl.job.id, DOWNLOADING, 15, NULL, NULL)
          /\ dl' = [dl EXCEPT !.pc = "open", !.is_aaxc = FALSE, !.url = "aax"]
       \/ \* get_aaxc_url succeeded (is_aaxc = True), writing the voucher raised
          \* (open failed, or json.dump stopped midway), get_aax_url succeeded
          /\ \/ "voucher_unwritten" \in env.descriptors /\ fs' = fs
             \/ /\ "voucher_truncated" \in env.descriptors
                /\ fs' = WriteFile(fs, dl.job.id, "voucher.json", "truncated")
          /\ jobs' = update_job_stage(jobs, dl.job.id, DOWNLOADING, 15, NULL, NULL)
          /\ dl' = [dl EXCEPT !.pc = "open", !.is_aaxc = TRUE, !.url = "aax"]
       \/ \* the fallback get_aax_url raised too
          /\ \E msg \in env.net_msgs : DlRaise(msg)
          /\ UNCHANGED <<jobs, fs>>
    /\ UNCHANGED <<books, next_id, clock, phase, reset_ok, cv, crashes, workers, env>>

\* audio_file = book_dir / f"audio.{ext}"
AudioName(is_aaxc) == IF is_aaxc THEN "audio.aaxc" ELSE "audio.aax"

\* lines 142-150: an existing audio file is kept; otherwise GET the url,
\* read total from the content-length header (0 without the header) and
\* open the file for writing
DlOpen ==
    /\ DlAlive /\ dl.pc = "open"
    /\ \/ /\ FileExists(fs, dl.job.id, AudioName(dl.is_aaxc))
          /\ dl' = [dl EXCEPT !.pc = "finish"]
          /\ fs' = fs
       \/ /\ ~FileExists(fs, dl.job.id, AudioName(dl.is_aaxc))
          /\ fs' = WriteFile(fs, dl.job.id, AudioName(dl.is_aaxc),
                             [bytes |-> 0, url |-> dl.url])
          /\ \E total \in env.content_lengths :
                dl' = [dl EXCEPT !.pc = "stream", !.total = total, !.downloaded = 0]
       \/ /\ ~FileExists(fs, dl.job.id, AudioName(dl.is_aaxc))
          /\ \E msg \in env.net_msgs : DlRaise(msg)
          /\ fs' = fs
    /\ UNCHANGED <<jobs, books, next_id, clock, phase, reset_ok, cv, crashes, workers, env>>

\* pct = 15 + int((downloaded / total) * 30)
DownloadPct(downloaded, total) == 15 + ((downloaded * 30) \div total)
DownloadDetail(downloaded, total) ==
    ToString(downloaded) \o " / " \o ToString(total) \o " MB"

\* lines 151-159: one chunk written, and one progress write if total > 0
DlChunk ==
    /\ DlAlive /\ dl.pc = "stream"
    /\ \/ /\ dl.downloaded < TotalChunks
          /\ LET downloaded == dl.downloaded + 1 IN
                /\ fs' = WriteFile(fs, dl.job.id, AudioName(dl.is_aaxc),
                                   [bytes |-> downloaded, url |-> dl.url])
                /\ jobs' = IF dl.total > 0
                           THEN update_job_stage(jobs, dl.job.id, DOWNLOADING,
                                                 DownloadPct(downloaded, dl.total), NULL,
                                                 DownloadDetail(downloaded, dl.total))
                           ELSE jobs
                /\ dl' = [dl EXCEPT !.downloaded = downloaded]
       \/ /\ dl.downloaded = TotalChunks
          /\ dl' = [dl EXCEPT !.pc = "finish"]
          /\ UNCHANGED <<jobs, fs>>
       \/ /\ dl.downloaded < TotalChunks
          /\ \E msg \in env.net_msgs : DlRaise(msg)
          /\ UNCHANGED <<jobs, fs>>
    /\ UNCHANGED <<books, next_id, clock, phase, reset_ok, cv, crashes, workers, env>>

\* the handoff document json.dump writes to meta.json
MetaDoc(job, authors, is_aaxc) ==
    [asin |-> job.asin, title |-> job.title, authors |-> authors, is_aaxc |-> is_aaxc,
     audio_file |-> AudioName(is_aaxc), book_dir |-> BookDir(job.id)]

\* lines 163-184, best effort: chapters.json is written when the metadata
\* request returned chapter_info, cover.jpg when it was fetched and was absent
BestEffort(fsys, id, doc, cover) ==
    LET withChapters == IF doc = <<>> THEN fsys
                        ELSE WriteFile(fsys, id, "chapters.json", doc)
    IN  IF cover /\ ~FileExists(fsys, id, "cover.jpg")
        THEN WriteFile(withChapters, id, "cover.jpg", "jpeg")
        ELSE withChapters

\* str(e) of an exception raised by item.get_cover_url
CoverLookupError == "'product_images'"

\* lines 161-197: progress 45, chapters and cover, meta.json; the cover URL
\* lookup at line 175 is outside the try blocks
DlFinish ==
    /\ DlAlive /\ dl.pc = "finish"
    /\ jobs' = update_job_stage(jobs, dl.job.id, DOWNLOADING, 45, NULL, NULL)
    /\ \E doc \in env.docs, cover \in env.covers, authors \in env.authors :
        \/ /\ fs' = WriteFile(BestEffort(fs, dl.job.id, doc, cover), dl.job.id,
                              "meta.json", MetaDoc(dl.job, authors, dl.is_aaxc))
           /\ dl' = [dl EXCEPT !.pc = "advance"]
        \/ /\ fs' = BestEffort(fs, dl.job.id, doc, cover)
           /\ \E msg \in env.sys_msgs : DlRaise(msg)
        \/ /\ env.cover_url_raises
           /\ fs' = BestEffort(fs, dl.job.id, doc, FALSE)
           /\ DlRaise(CoverLookupError)
    /\ UNCHANGED <<books, next_id, clock, phase, reset_ok, cv, crashes, workers, env>>

\* mutant: the handoff keeps the progress of the download stage
DlAdvance_keeps_progress ==
    /\ DlAlive /\ dl.pc = "advance"
    /\ jobs' = update_job_stage(jobs, dl.job.id, PENDING_CONVERT, 45, NULL, NULL)
    /\ dl' = DlIdle
    /\ UNCHANGED <<books, next_id, clock, fs, phase, reset_ok, cv, crashes, workers, env>>

\* _process_job, line 90
DlAdvance ==
    /\ DlAlive /\ dl.pc = "advance"
    /\ \/ /\ jobs' = update_job_stage(jobs, dl.job.id, PENDING_CONVERT, 50, NULL, NULL)
          /\ dl' = DlIdle
       \/ /\ StoreRaises
          /\ jobs' = jobs
          /\ \E msg \in env.sys_msgs : DlRaise(msg)
    /\ UNCHANGED <<books, next_id, clock, fs, phase, reset_ok, cv, crashes, workers, env>>

\* mutant: an error of the FAILED write ends the thread
DlFail_exits ==
    /\ DlAlive /\ dl.pc = "failing"
    /\ \/ jobs' = update_job_stage(jobs, dl.job.id, FAILED, 0, dl.err, NULL) /\ dl' = DlIdle
       \/ StoreRaises /\ jobs' = jobs /\ dl' = [DlIdle EXCEPT !.pc = "exited"]
    /\ UNCHANGED <<books, next_id, clock, fs, phase, reset_ok, cv, crashes, workers, env>>

\* _process_job, lines 93-95; when this write raises, _run's handler prints
\* the error and the loop polls again
DlFail ==
    /\ DlAlive /\ dl.pc = "failing"
    /\ \/ jobs' = update_job_stage(jobs, dl.job.id, FAILED, 0, dl.err, NULL)
       \/ StoreRaises /\ jobs' = jobs
    /\ dl' = DlIdle
    /\ UNCHANGED <<books, next_id, clock, fs, phase, reset_ok, cv, crashes, workers, env>>

DownloadWorkerStep ==
    \/ DlPoll \/ DlMarkDownloading \/ DlMkdir \/ DlLibrary \/ DlDescriptor
    \/ DlOpen \/ DlChunk \/ DlFinish \/ DlAdvance \/ DlFail

(* ----------------------------- ConvertWorker --------------------------- *)
\* _run, line 222: the claim query
CvPoll ==
    /\ ConvertRunning /\ cv.pc = "poll"
    /\ \E id \in get_job_by_stage(jobs, PENDING_CONVERT) :
        cv' = [CvIdle EXCEPT !.pc = "claimed", !.job = JobOf(jobs, id)]
    /\ UNCHANGED <<jobs, books, next_id, clock, fs, phase, reset_ok, dl, crashes, workers, env>>

\* _process_job, line 233 (outside the try)
CvMarkConverting ==
    /\ CvAlive /\ cv.pc = "claimed"
    /\ \/ /\ jobs' = update_job_stage(jobs, cv.job.id, CONVERTING, 50, NULL, NULL)
          /\ cv' = [cv EXCEPT !.pc = "load"]
       \/ /\ StoreRaises
          /\ jobs' = jobs
          /\ cv' = CvIdle
    /\ UNCHANGED <<books, next_id, clock, fs, phase, reset_ok, dl, crashes, workers, env>>

\* an exception inside the try of _process_job
CvRaise(msg) == cv' = [cv EXCEPT !.pc = "failing", !.err = msg]

\* lines 236-252: user lookup, meta.json
CvLoad ==
    /\ CvAlive /\ cv.pc = "load"
    /\ IF cv.job.user_id \notin Users THEN CvRaise("User not found")
       ELSE IF ~FileExists(fs, cv.job.id, "meta.json") THEN CvRaise("Metadata file not found")
       ELSE cv' = [cv EXCEPT !.pc = "params", !.meta = fs[cv.job.id].files["meta.json"]]
    /\ UNCHANGED <<jobs, books, next_id, clock, fs, phase, reset_ok, dl, crashes, workers, env>>

\* mutant: a license without key or iv is passed on
DecryptError_ignores_incomplete(fsys, id, is_aaxc, activation_ok) ==
    IF is_aaxc THEN
        IF ~FileExists(fsys, id, "voucher.json") THEN "Missing voucher file"
        ELSE IF fsys[id].files["voucher.json"] = "truncated"
             THEN "Expecting value: line 1 column 1 (char 0)"
        ELSE NULL
    ELSE IF activation_ok THEN NULL ELSE "Could not get activation bytes"

\* lines 276-296: the exception the decryption parameters end in, or NULL
DecryptError(fsys, id, is_aaxc, activation_ok) ==
    IF is_aaxc THEN
        IF ~FileExists(fsys, id, "voucher.json") THEN "Missing voucher file"
        ELSE IF fsys[id].files["voucher.json"] = "truncated"
             THEN "Expecting value: line 1 column 1 (char 0)"
        ELSE IF fsys[id].files["voucher.json"] = "incomplete" THEN "Missing AAXC key/iv"
        ELSE NULL
    ELSE IF activation_ok THEN NULL ELSE "Could not get activation bytes"

\* lines 298-304: chapters.json, flattened; no file, no chapters
LoadChapters(fsys, id) ==
    IF FileExists(fsys, id, "chapters.json")
    THEN _flatten_chapters(fsys[id].files["chapters.json"], NULL)
    ELSE <<>>

\* _convert_to_mp3, lines 273-328: mp3 directory, decryption parameters,
\* chapters, probe (best effort, decides only tags and bitrate)
CvParams ==
    /\ CvAlive /\ cv.pc = "params"
    /\ fs' = MkSubdir(fs, cv.job.id, "mp3")
    /\ \E activation_ok \in env.activation :
        LET error == DecryptError(fs, cv.job.id, cv.meta.is_aaxc, activation_ok)
            chapters == LoadChapters(fs, cv.job.id)
        IN  IF error # NULL THEN CvRaise(error)
            ELSE IF chapters # <<>>
            THEN cv' = [cv EXCEPT !.pc = "pool", !.chapters = chapters,
                                  !.tasks = [i \in 1..Len(chapters) |-> "queued"],
                                  !.seen = {}, !.completed = 0]
            ELSE cv' = [cv EXCEPT !.pc = "whole"]
    /\ UNCHANGED <<jobs, books, next_id, clock, phase, reset_ok, dl, crashes, workers, env>>

\* str(subprocess.CalledProcessError)
FfmpegError == "Command ffmpeg returned non-zero exit status 1."

\* _safe_filename keeps alphanumerics, space, hyphen and underscore, strips
\* the ends and cuts at 100 characters: its value on the titles of ChapterDocs
_safe_filename(name) ==
    CASE name = "Ch:2" -> "Ch2"
      [] OTHER -> name

\* output_file = mp3_dir / f"{i:03d} - {safe_title}.mp3"
OutputName(i, chapter) ==
    ToString(i) \o " - " \o _safe_filename(Get(chapter, "title", "Chapter " \o ToString(i)))
                \o ".mp3"

\* lines 377-385: the whole-file transcode, ffmpeg -y
CvWhole ==
    /\ CvAlive
    /\ \/ /\ cv.pc = "whole"
          /\ SubdirExists(fs, cv.job.id, "mp3")
          /\ fs' = WriteSubFile(fs, cv.job.id, "mp3", "audiobook.mp3", "partial")
          /\ cv' = [cv EXCEPT !.pc = "whole_run"]
       \/ \* ffmpeg cannot open an output in a directory that is gone
          /\ cv.pc = "whole"
          /\ ~SubdirExists(fs, cv.job.id, "mp3")
          /\ fs' = fs
          /\ CvRaise(FfmpegError)
       \/ /\ cv.pc = "whole_run"
          /\ fs' = WriteSubFile(fs, cv.job.id, "mp3", "audiobook.mp3", "full")
          /\ cv' = [cv EXCEPT !.pc = "package"]
       \/ /\ cv.pc = "whole_run"
          /\ env.ffmpeg_fails
          /\ fs' = fs
          /\ CvRaise(FfmpegError)
    /\ UNCHANGED <<jobs, books, next_id, clock, phase, reset_ok, dl, crashes, workers, env>>

\* max_workers = os.cpu_count() or 4
max_workers == IF CpuCount > 0 THEN CpuCount ELSE 4

Running(tasks) == {i \in DOMAIN tasks : tasks[i] = "running"}
Queued(tasks) == {i \in DOMAIN tasks : tasks[i] = "queued"}
Finished(tasks) == {i \in DOMAIN tasks : tasks[i] \in {"done", "failed"}}

\* mutant: convert_chapter without the test for an existing output
CvTaskStart_always_transcodes ==
    /\ CvAlive /\ cv.pc \in {"pool", "drain"}
    /\ Cardinality(Running(cv.tasks)) < max_workers
    /\ \E i \in Queued(cv.tasks) :
        /\ \A k \in Queued(cv.tasks) : i <= k
        /\ cv' = [cv EXCEPT !.tasks[i] = "running", !.invoked = @ \cup {i}]
        /\ fs' = WriteSubFile(fs, cv.job.id, "mp3", OutputName(i, cv.chapters[i]), "partial")
    /\ UNCHANGED <<jobs, books, next_id, clock, phase, reset_ok, dl, crashes, workers, env>>

\* a pool thread takes the next work item and runs convert_chapter up to
\* the start of ffmpeg (lines 330-357): an existing output ends the task;
\* invoked collects the chapters ffmpeg was started for
CvTaskStart ==
    /\ CvAlive /\ cv.pc \in {"pool", "drain"}
    /\ Cardinality(Running(cv.tasks)) < max_workers
    /\ \E i \in Queued(cv.tasks) :
        /\ \A k \in Queued(cv.tasks) : i <= k
        /\ LET output_file == OutputName(i, cv.chapters[i]) IN
            IF ~SubdirExists(fs, cv.job.id, "mp3")
            THEN \* ffmpeg cannot open an output in a directory that is gone
                 /\ cv' = [cv EXCEPT !.tasks[i] = "failed", !.invoked = @ \cup {i}]
                 /\ fs' = fs
            ELSE IF output_file \in DOMAIN fs[cv.job.id].dirs["mp3"]
            THEN /\ cv' = [cv EXCEPT !.tasks[i] = "done"]
                 /\ fs' = fs
            ELSE /\ cv' = [cv EXCEPT !.tasks[i] = "running", !.invoked = @ \cup {i}]
                 /\ fs' = WriteSubFile(fs, cv.job.id, "mp3", output_file, "partial")
    /\ UNCHANGED <<jobs, books, next_id, clock, phase, reset_ok, dl, crashes, workers, env>>

\* ffmpeg exits (line 357): the output is complete, or check=True raises
CvTaskEnd ==
    /\ CvAlive /\ cv.pc \in {"pool", "drain"}
    /\ \E i \in Running(cv.tasks) :
        \/ /\ cv' = [cv EXCEPT !.tasks[i] = "done"]
           /\ fs' = WriteSubFile(fs, cv.job.id, "mp3", OutputName(i, cv.chapters[i]), "full")
        \/ /\ env.ffmpeg_fails
           /\ cv' = [cv EXCEPT !.tasks[i] = "failed"]
           /\ fs' = fs
    /\ UNCHANGED <<jobs, books, next_id, clock, phase, reset_ok, dl, crashes, workers, env>>

\* pct = 50 + int((completed[0] / total_chapters) * 45)
ConvertPct(completed, total_chapters) == 50 + ((completed * 45) \div total_chapters)
ConvertDetail(completed, total_chapters) ==
    "Chapter " \o ToString(completed) \o " / " \o ToString(total_chapters)

\* mutant: the progress write reports the number of the finished chapter
CvCollect_reports_chapter_num ==
    /\ CvAlive /\ cv.pc = "pool"
    /\ \E i \in Finished(cv.tasks) \ cv.seen :
        LET total_chapters == Len(cv.chapters)
            completed == cv.completed + 1
        IN  \/ /\ cv.tasks[i] = "done"
               /\ jobs' = update_job_stage(jobs, cv.job.id, CONVERTING,
                                           ConvertPct(i, total_chapters), NULL,
                                           ConvertDetail(i, total_chapters))
               /\ cv' = [cv EXCEPT !.seen = @ \cup {i}, !.completed = completed,
                                   !.pc = IF cv.seen \cup {i} = DOMAIN cv.tasks
                                          THEN "package" ELSE "pool"]
            \/ /\ cv.tasks[i] = "done"
               /\ StoreRaises
               /\ jobs' = jobs
               /\ \E msg \in env.sys_msgs :
                    cv' = [cv EXCEPT !.seen = @ \cup {i}, !.completed = completed,
                                     !.pc = "drain", !.err = msg]
            \/ /\ cv.tasks[i] = "failed"
               /\ jobs' = jobs
               /\ cv' = [cv EXCEPT !.seen = @ \cup {i}, !.pc = "drain", !.err = FfmpegError]
    /\ UNCHANGED <<books, next_id, clock, fs, phase, reset_ok, dl, crashes, workers, env>>

\* lines 369-375: as_completed yields a finished future; result() raises
\* when the task failed, otherwise one counter increment and one progress
\* write.  An exception leaves the with block, whose exit waits for the pool
CvCollect ==
    /\ CvAlive /\ cv.pc = "pool"
    /\ \E i \in Finished(cv.tasks) \ cv.seen :
        LET total_chapters == Len(cv.chapters)
            completed == cv.completed + 1
        IN  \/ /\ cv.tasks[i] = "done"
               /\ jobs' = update_job_stage(jobs, cv.job.id, CONVERTING,
                                           ConvertPct(completed, total_chapters), NULL,
                                           ConvertDetail(completed, total_chapters))
               /\ cv' = [cv EXCEPT !.seen = @ \cup {i}, !.completed = completed,
                                   !.pc = IF cv.seen \cup {i} = DOMAIN cv.tasks
                                          THEN "package" ELSE "pool"]
            \/ /\ cv.tasks[i] = "done"
               /\ StoreRaises
               /\ jobs' = jobs
               /\ \E msg \in env.sys_msgs :
                    cv' = [cv EXCEPT !.seen = @ \cup {i}, !.completed = completed,
                                     !.pc = "drain", !.err = msg]
            \/ /\ cv.tasks[i] = "failed"
               /\ jobs' = jobs
               /\ cv' = [cv EXCEPT !.seen = @ \cup {i}, !.pc = "drain", !.err = FfmpegError]
    /\ UNCHANGED <<books, next_id, clock, fs, phase, reset_ok, dl, crashes, workers, env>>

\* mutant: the pool is shut down without waiting for its tasks
CvDrain_no_wait ==
    /\ CvAlive /\ cv.pc = "drain"
    /\ cv' = [cv EXCEPT !.pc = "failing"]
    /\ UNCHANGED <<jobs, books, next_id, clock, fs, phase, reset_ok, dl, crashes, workers, env>>

\* ThreadPoolExecutor.__exit__: shutdown(wait=True) returns once every
\* submitted task has run; then the exception reaches _process_job
CvDrain ==
    /\ CvAlive /\ cv.pc = "drain"
    /\ Finished(cv.tasks) = DOMAIN cv.tasks
    /\ cv' = [cv EXCEPT !.pc = "failing"]
    /\ UNCHANGED <<jobs, books, next_id, clock, fs, phase, reset_ok, dl, crashes, workers, env>>

\* _create_zip: the entries of the archive written from mp3_dir and cover.jpg
ZipEntries(fsys, id) ==
    DOMAIN fsys[id].dirs["mp3"]
        \cup (IF FileExists(fsys, id, "cover.jpg") THEN {"cover.jpg"} ELSE {})

\* zip_file.unlink()
Unlink(fsys, id, name) ==
    [fsys EXCEPT ![id].files = [n \in DOMAIN @ \ {name} |-> @[n]]]

\* mutant: an archive left by a prior attempt is kept
CvPackage_keeps_archive ==
    /\ CvAlive /\ cv.pc = "package"
    /\ \/ /\ jobs' = update_job_stage(jobs, cv.job.id, CONVERTING, 95, NULL, NULL)
          /\ fs' = IF FileExists(fs, cv.job.id, "audiobook.zip") THEN fs
                   ELSE WriteFile(fs, cv.job.id, "audiobook.zip", ZipEntries(fs, cv.job.id))
          /\ cv' = [cv EXCEPT !.pc = "save"]
       \/ /\ jobs' = update_job_stage(jobs, cv.job.id, CONVERTING, 95, NULL, NULL)
          /\ \/ fs' = Unlink(fs, cv.job.id, "audiobook.zip")
             \/ fs' = WriteFile(fs, cv.job.id, "audiobook.zip", {})
          /\ \E msg \in env.sys_msgs : CvRaise(msg)
    /\ UNCHANGED <<books, next_id, clock, phase, reset_ok, dl, crashes, workers, env>>

\* str(e) of the FileNotFoundError of mp3_dir.iterdir()
MissingDirError == "[Errno 2] No such file or directory"

\* lines 257-260: progress 95, then the archive
CvPackage ==
    /\ CvAlive /\ cv.pc = "package"
    /\ \/ /\ SubdirExists(fs, cv.job.id, "mp3")
          /\ jobs' = update_job_stage(jobs, cv.job.id, CONVERTING, 95, NULL, NULL)
          /\ fs' = WriteFile(fs, cv.job.id, "audiobook.zip", ZipEntries(fs, cv.job.id))
          /\ cv' = [cv EXCEPT !.pc = "save"]
       \/ \* the old archive is unlinked; opening the new one raises, or
          \* writing its first entry does
          /\ jobs' = update_job_stage(jobs, cv.job.id, CONVERTING, 95, NULL, NULL)
          /\ \/ fs' = Unlink(fs, cv.job.id, "audiobook.zip")
             \/ fs' = WriteFile(fs, cv.job.id, "audiobook.zip", {})
          /\ \E msg \in env.sys_msgs : CvRaise(msg)
       \/ \* lines 394-397: the new archive is open when listing a missing
          \* mp3_dir raises
          /\ ~SubdirExists(fs, cv.job.id, "mp3")
          /\ jobs' = update_job_stage(jobs, cv.job.id, CONVERTING, 95, NULL, NULL)
          /\ fs' = WriteFile(fs, cv.job.id, "audiobook.zip", {})
          /\ CvRaise(MissingDirError)
    /\ UNCHANGED <<books, next_id, clock, phase, reset_ok, dl, crashes, workers, env>>

\* line 263
CvSaveBook ==
    /\ CvAlive /\ cv.pc = "save"
    /\ \/ /\ books' = save_book(books, cv.job.user_id, cv.job.asin, cv.job.title,
                                cv.meta.authors, BookDir(cv.job.id))
          /\ cv' = [cv EXCEPT !.pc = "complete"]
       \/ /\ StoreRaises
          /\ books' = books
          /\ \E msg \in env.sys_msgs : CvRaise(msg)
    /\ UNCHANGED <<jobs, next_id, clock, fs, phase, reset_ok, dl, crashes, workers, env>>

\* line 265
CvComplete ==
    /\ CvAlive /\ cv.pc = "complete"
    /\ \/ /\ jobs' = update_job_stage(jobs, cv.job.id, COMPLETED, 100, NULL, NULL)
          /\ cv' = CvIdle
       \/ /\ StoreRaises
          /\ jobs' = jobs
          /\ \E msg \in env.sys_msgs : CvRaise(msg)
    /\ UNCHANGED <<books, next_id, clock, fs, phase, reset_ok, dl, crashes, workers, env>>

\* mutant: the except branch clears the chapter outputs
CvFail_cleans_up ==
    /\ CvAlive /\ cv.pc = "failing"
    /\ jobs' = update_job_stage(jobs, cv.job.id, FAILED, 0, cv.err, NULL)
    /\ fs' = [fs EXCEPT ![cv.job.id].dirs = NoEntries]
    /\ cv' = CvIdle
    /\ UNCHANGED <<books, next_id, clock, phase, reset_ok, dl, crashes, workers, env>>

\* lines 268-270; when this write raises, _run's handler prints the error
CvFail ==
    /\ CvAlive /\ cv.pc = "failing"
    /\ \/ jobs' = update_job_stage(jobs, cv.job.id, FAILED, 0, cv.err, NULL)
       \/ StoreRaises /\ jobs' = jobs
    /\ cv' = CvIdle
    /\ UNCHANGED <<books, next_id, clock, fs, phase, reset_ok, dl, crashes, workers, env>>

ConvertWorkerStep ==
    \/ CvPoll \/ CvMarkConverting \/ CvLoad \/ CvParams \/ CvWhole
    \/ CvTaskStart \/ CvTaskEnd \/ CvCollect \/ CvDrain
    \/ CvPackage \/ CvSaveBook \/ CvComplete \/ CvFail

Next ==
    \/ StartReset \/ StartSweep \/ Crash \/ SubmitJob
    \/ DownloadWorkerStep
    \/ ConvertWorkerStep

Spec == Init /\ [][Next]_vars

(* ------------------------ administrative delete ------------------------ *)
\* the pipeline with an administrator who deletes jobs while it runs; the
\* collaborators do not fail
AdminEnv ==
    [max_jobs |-> MaxJobs, max_crashes |-> MaxCrashes,
     users |-> {1}, asins |-> {"X1"}, titles |-> {"T1"}, authors |-> {"A1"},
     net_msgs |-> {},
     sys_msgs |-> {},
     item_missing |-> TRUE,
     descriptors |-> {"aaxc"},
     docs |-> ChapterDocs \cup {<<>>},
     covers |-> {TRUE},
     cover_url_raises |-> FALSE,
     content_lengths |-> {TotalChunks},
     activation |-> {TRUE},
     ffmpeg_fails |-> TRUE,
     store_faults |-> FALSE]

InitAdmin == InitStore /\ env = AdminEnv

\* db.delete_job(job_id, user_id), called by the job's owner
AdminDelete ==
    /\ phase = "running"
    /\ \E job_id \in DOMAIN jobs :
          jobs' = delete_job(jobs, job_id, jobs[job_id].user_id)
    /\ UNCHANGED <<books, next_id, clock, fs, phase, reset_ok, dl, cv, crashes, workers, env>>

NextAdmin == Next \/ AdminDelete

SpecAdmin == InitAdmin /\ [][NextAdmin]_vars

(* --------------------------- the Book table ---------------------------- *)
\* the pipeline for several users and content ids whose title and author the library
\* may report differently from one job to the next; no restart, and of the
\* collaborators only the library lookup and the external tool fail
BooksEnv ==
    [max_jobs |-> MaxJobs, max_crashes |-> 0,
     users |-> Users, asins |-> Asins, titles |-> Titles, authors |-> Authors,
     net_msgs |-> {},
     sys_msgs |-> {},
     item_missing |-> TRUE,
     descriptors |-> {"aaxc"},
     docs |-> {<<>>},
     covers |-> {TRUE},
     cover_url_raises |-> FALSE,
     content_lengths |-> {TotalChunks},
     activation |-> {TRUE},
     ffmpeg_fails |-> TRUE,
     store_faults |-> FALSE]

InitBooks == InitStore /\ env = BooksEnv

NextBooks ==
    \/ StartReset \/ StartSweep \/ SubmitJob
    \/ DownloadWorkerStep
    \/ CvPoll \/ CvMarkConverting \/ CvLoad \/ CvParams \/ CvWhole
    \/ CvPackage \/ CvSaveBook \/ CvComplete \/ CvFail

SpecBooks == InitBooks /\ [][NextBooks]_vars

(* -------------------------- the successful run ------------------------- *)
\* every external call succeeds, every store write succeeds, the process
\* stays up, and every book has chapters
SuccessEnv ==
    [max_jobs |-> MaxJobs, max_crashes |-> 0,
     users |-> {1}, asins |-> {"X1"}, titles |-> {"T1"}, authors |-> {"A1"},
     net_msgs |-> {},
     sys_msgs |-> {},
     item_missing |-> FALSE,
     descriptors |-> {"aaxc"},
     docs |-> ChapterDocs,
     covers |-> {TRUE},
     cover_url_raises |-> FALSE,
     content_lengths |-> {TotalChunks},
     activation |-> {TRUE},
     ffmpeg_fails |-> FALSE,
     store_faults |-> FALSE]

InitSuccess == InitStore /\ env = SuccessEnv

\* the steps of the download worker thread
DownloadSuccessStep ==
    \/ DlPoll \/ DlMarkDownloading \/ DlMkdir \/ DlLibrary \/ DlDescriptor
    \/ DlOpen \/ DlChunk \/ DlFinish \/ DlAdvance

\* the steps of the convert worker thread and of its pool
ConvertSuccessStep ==
    \/ CvPoll \/ CvMarkConverting \/ CvLoad \/ CvParams
    \/ CvTaskStart \/ CvTaskEnd \/ CvCollect
    \/ CvPackage \/ CvSaveBook \/ CvComplete

NextSuccess ==
    \/ StartReset \/ StartSweep \/ SubmitJob
    \/ DownloadSuccessStep
    \/ ConvertSuccessStep

\* Worker.start returns, and both worker threads keep running their loops
SpecSuccess ==
    /\ InitSuccess /\ [][NextSuccess]_vars
    /\ WF_vars(StartReset) /\ WF_vars(StartSweep)
    /\ WF_vars(DownloadSuccessStep) /\ WF_vars(ConvertSuccessStep)

(* ------------------------- the fair pipeline --------------------------- *)
\* the whole pipeline with a store whose writes succeed: external calls and
\* the disk may fail and the process may die and restart
LiveEnv == [PipelineEnv EXCEPT !.store_faults = FALSE]

InitLive == InitStore /\ env = LiveEnv

\* Worker.start returns, and both worker threads keep running their loops
SpecLive ==
    /\ InitLive /\ [][Next]_vars
    /\ WF_vars(StartReset) /\ WF_vars(StartSweep)
    /\ WF_vars(DownloadWorkerStep) /\ WF_vars(ConvertWorkerStep)

(* ---------------------- the fatal convert conditions ------------------- *)
\* the content provider answers with every kind of descriptor and license,
\* the activation token may be unresolvable, the external tool may fail; the
\* store and the network do not fail and the process stays up
FatalEnv ==
    [max_jobs |-> MaxJobs, max_crashes |-> 0,
     users |-> {1}, asins |-> {"X1"}, titles |-> {"T1"}, authors |-> {"A1"},
     net_msgs |-> {},
     sys_msgs |-> {},
     item_missing |-> TRUE,
     descriptors |-> {"aaxc", "aaxc_incomplete", "aax", "voucher_unwritten",
                      "voucher_truncated"},
     docs |-> ChapterDocs \cup {<<>>},
     covers |-> {TRUE},
     cover_url_raises |-> FALSE,
     content_lengths |-> {TotalChunks},
     activation |-> {TRUE, FALSE},
     ffmpeg_fails |-> TRUE,
     store_faults |-> FALSE]

InitFatal == InitStore /\ env = FatalEnv

\* the handoff document of a job that waits for conversion disappears from
\* the data directory (the case meta_file.exists() tests, lines 244-246)
LoseMeta ==
    /\ phase = "running"
    /\ \E id \in {i \in DOMAIN jobs : jobs[i].stage = PENDING_CONVERT} :
          /\ FileExists(fs, id, "meta.json")
          /\ fs' = Unlink(fs, id, "meta.json")
    /\ UNCHANGED <<jobs, books, next_id, clock, phase, reset_ok, dl, cv, crashes, workers, env>>

NextFatal ==
    \/ StartReset \/ StartSweep \/ SubmitJob \/ LoseMeta
    \/ DownloadWorkerStep
    \/ ConvertWorkerStep

SpecFatal == InitFatal /\ [][NextFatal]_vars

(* ------------------------- the fair polling loops ---------------------- *)
\* the whole pipeline in a process that stays up: external calls, the disk
\* and the store may fail
LoopEnv == [PipelineEnv EXCEPT !.max_crashes = 0]

InitLoop == InitStore /\ env = LoopEnv

NextLoop ==
    \/ StartReset \/ StartSweep \/ SubmitJob
    \/ DownloadWorkerStep
    \/ ConvertWorkerStep

\* Worker.start returns, and both worker threads keep running their loops
SpecLoop ==
    /\ InitLoop /\ [][NextLoop]_vars
    /\ WF_vars(StartReset) /\ WF_vars(StartSweep)
    /\ WF_vars(DownloadWorkerStep) /\ WF_vars(ConvertWorkerStep)

(* ----------------------- the degraded handoff ------------------------- *)
\* everything succeeds but the steps that obtain the chapter metadata and
\* the cover: the metadata request, the cover URL lookup and the cover fetch
\* may fail
MetaEnv ==
    [SuccessEnv EXCEPT !.docs = ChapterDocs \cup {<<>>},
                       !.covers = {TRUE, FALSE},
                       !.cover_url_raises = TRUE]

InitMeta == InitStore /\ env = MetaEnv

ConvertMetaStep == ConvertSuccessStep \/ CvWhole

NextMeta ==
    \/ StartReset \/ StartSweep \/ SubmitJob
    \/ DownloadWorkerStep
    \/ ConvertMetaStep

\* Worker.start returns, and both worker threads keep running their loops
SpecMeta ==
    /\ InitMeta /\ [][NextMeta]_vars
    /\ WF_vars(StartReset) /\ WF_vars(StartSweep)
    /\ WF_vars(DownloadWorkerStep) /\ WF_vars(ConvertMetaStep)

(* ---------------------------- the packager ---------------------------- *)
\* one job, with or without chapters and with or without a cover; the disk
\* and the store may fail and the process may die and restart, so that the
\* packager meets what a prior attempt left
PackEnv ==
    [PipelineEnv EXCEPT !.max_jobs = 1, !.covers = {TRUE, FALSE},
                        !.net_msgs = {}, !.item_missing = FALSE,
                        !.ffmpeg_fails = FALSE]

InitPack == InitStore /\ env = PackEnv

SpecPack == InitPack /\ [][Next]_vars

(* ------------------------------ shutdown ------------------------------- *)
\* DownloadWorker.stop, line 62: the flag is cleared; the join follows
StopDownload ==
    /\ phase = "running"
    /\ phase' = "dl_stopped"
    /\ workers' = [workers EXCEPT !.dl_running = FALSE]
    /\ UNCHANGED <<jobs, books, next_id, clock, fs, reset_ok, dl, cv, crashes, env>>

\* _run, lines 67 and 220: a thread that finds the flag clear at the top of
\* its loop returns
DlReturn ==
    /\ DlAlive /\ ~DownloadRunning
    /\ dl.pc = "poll" \/ workers.dl_threads > 1
    /\ workers' = [workers EXCEPT !.dl_threads = @ - 1]
    /\ UNCHANGED <<jobs, books, next_id, clock, fs, phase, reset_ok, dl, cv, crashes, env>>

CvReturn ==
    /\ CvAlive /\ ~ConvertRunning
    /\ cv.pc = "poll" \/ workers.cv_threads > 1
    /\ workers' = [workers EXCEPT !.cv_threads = @ - 1]
    /\ UNCHANGED <<jobs, books, next_id, clock, fs, phase, reset_ok, dl, cv, crashes, env>>

\* lines 63-64 and 215: the join of the download thread returns, because
\* the thread has returned or because 5 seconds have passed while it is
\* processing a job; then ConvertWorker.stop clears its flag
StopConvert ==
    /\ phase = "dl_stopped"
    /\ ~DlAlive \/ dl.pc # "poll"
    /\ phase' = "cv_stopped"
    /\ workers' = [workers EXCEPT !.cv_running = FALSE]
    /\ UNCHANGED <<jobs, books, next_id, clock, fs, reset_ok, dl, cv, crashes, env>>

\* lines 216-217: the join of the convert thread returns in the same way,
\* and Worker.stop returns
StopReturn ==
    /\ phase = "cv_stopped"
    /\ ~CvAlive \/ cv.pc # "poll"
    /\ phase' = "stopped"
    /\ UNCHANGED <<jobs, books, next_id, clock, fs, reset_ok, dl, cv, crashes, workers, env>>

\* web.shutdown returns and the interpreter exits: daemon threads (lines
\* 58, 211) end where they are
Exit ==
    /\ phase = "stopped"
    /\ phase' = "exited"
    /\ workers' = [workers EXCEPT !.dl_threads = 0, !.cv_threads = 0]
    /\ UNCHANGED <<jobs, books, next_id, clock, fs, reset_ok, dl, cv, crashes, env>>

\* the pipeline with a store whose writes succeed, in a process that is shut
\* down at some time and does not die otherwise
StopEnv == [PipelineEnv EXCEPT !.store_faults = FALSE, !.max_crashes = 0]

InitStop == InitStore /\ env = StopEnv

NextStop ==
    \/ StartReset \/ StartSweep \/ SubmitJob
    \/ StopDownload \/ StopConvert \/ StopReturn \/ Exit
    \/ DlReturn \/ CvReturn
    \/ DownloadWorkerStep
    \/ ConvertWorkerStep

\* the worker threads keep running while the process is up; when the
\* process is shut down is up to its environment
SpecStop ==
    /\ InitStop /\ [][NextStop]_vars
    /\ WF_vars(StartReset) /\ WF_vars(StartSweep)
    /\ WF_vars(DownloadWorkerStep) /\ WF_vars(ConvertWorkerStep)

(* ------------------------------ the stream ----------------------------- *)
\* the whole pipeline for one job, with a response that carries no
\* content-length header, one that announces the bytes aiter_bytes yields,
\* and one that announces fewer (the length of a compressed body, which
\* aiter_bytes decodes)
StreamEnv == [PipelineEnv EXCEPT !.max_jobs = 1, !.content_lengths = {0, 1, TotalChunks}]

InitStream == InitStore /\ env = StreamEnv

SpecStream == InitStream /\ [][Next]_vars

(* ------------------------------ restart -------------------------------- *)
\* Worker.start, lines 453-467, called on a Worker that has been started:
\* the method has no guard of its own, so the rollback and the sweep run
\* again and then both workers' start methods. dl and cv follow the first
\* thread of each worker; a thread started beyond it is counted in workers
\* and followed no further than the top of its loop
StartAgain ==
    /\ phase \in {"running", "stopped"}
    /\ workers.dl_threads < MaxThreads /\ workers.cv_threads < MaxThreads
    /\ phase' = "reset"
    /\ UNCHANGED <<jobs, books, next_id, clock, fs, reset_ok, dl, cv, crashes, workers, env>>

\* the pipeline with a store whose writes succeed, in a process that stays
\* up while Worker.start() and Worker.stop() are called in any order, and
\* one job
RestartEnv == [PipelineEnv EXCEPT !.max_jobs = 1, !.store_faults = FALSE, !.max_crashes = 0]

InitRestart == InitStore /\ env = RestartEnv

NextRestart ==
    \/ StartReset \/ StartSweep \/ SubmitJob
    \/ StopDownload \/ StopConvert \/ StopReturn
    \/ StartAgain
    \/ DlReturn \/ CvReturn
    \/ DownloadWorkerStep
    \/ ConvertWorkerStep

SpecRestart == InitRestart /\ [][NextRestart]_vars

(* --------------------------- the chapter trees ------------------------- *)
\* a chapter with nested chapters
Parent(title, start, children) ==
    [title |-> title, start_offset_ms |-> start, length_ms |-> 5000, chapters |-> children]

\* the distances between the start of a chapter and the start of its first
\* nested chapter
IntroGaps == {0 - 100, 0, 100, 101, 1000}

\* chapters without nested chapters that start at start: with a title, with
\* an empty title, of length 0, without the title key, and with an empty
\* list of nested chapters
LeafChapters(start) ==
    { Leaf("c", start, 500), Leaf("", start, 500), Leaf("c", start, 0),
      [start_offset_ms |-> start, length_ms |-> 500],
      [title |-> "c", start_offset_ms |-> start, length_ms |-> 500, chapters |-> <<>>] }

\* chapters whose nested chapters have no nested chapters
Depth2Chapters(start) ==
    { Parent(t, start, kids) :
        t \in {"", "P"},
        kids \in UNION { { <<k>> : k \in LeafChapters(start + gap) }
                           \cup { <<Leaf("c", start + gap, 500),
                                    Leaf("d", start + gap + 500, 500)>> } :
                         gap \in IntroGaps } }

\* chapters with two levels of nested chapters
Depth3Chapters(start) ==
    { Parent(t, start, kids) :
        t \in {"", "G"},
        kids \in UNION { { <<p>> : p \in Depth2Chapters(start + gap) }
                           \cup { <<p, Leaf("e", start + gap + 5000, 500)>> :
                                    p \in Depth2Chapters(start + gap) } :
                         gap \in {0, 101} } }

\* the chapter_info["chapters"] lists the content provider may return
ChapterTrees ==
    { <<n>> : n \in LeafChapters(1000) \cup Depth2Chapters(1000) \cup Depth3Chapters(1000) }
        \cup { <<n, m>> : n \in LeafChapters(0), m \in LeafChapters(1000) }
        \cup { <<n, Leaf("z", 9000, 500)>> : n \in Depth2Chapters(1000) }

\* one job, every external call and store write succeeds, and the content
\* provider returns any of the chapter trees
FlattenEnv ==
    [max_jobs |-> 1, max_crashes |-> 0,
     users |-> {1}, asins |-> {"X1"}, titles |-> {"T1"}, authors |-> {"A1"},
     net_msgs |-> {},
     sys_msgs |-> {},
     item_missing |-> FALSE,
     descriptors |-> {"aaxc"},
     docs |-> ChapterTrees,
     covers |-> {TRUE},
     cover_url_raises |-> FALSE,
     content_lengths |-> {TotalChunks},
     activation |-> {TRUE},
     ffmpeg_fails |-> FALSE,
     store_faults |-> FALSE]

InitFlatten == InitStore /\ env = FlattenEnv

\* the pipeline up to the point where the chapters are flattened
NextFlatten ==
    \/ StartReset \/ StartSweep \/ SubmitJob
    \/ DownloadSuccessStep
    \/ CvPoll \/ CvMarkConverting \/ CvLoad \/ CvParams

SpecFlatten == InitFlatten /\ [][NextFlatten]_vars

(* ============================== claims ================================= *)
Terminal == {COMPLETED, FAILED}

InStage(stage) == {i \in DOMAIN jobs : jobs[i].stage = stage}

\* the stage changes C1 allows
AllowedTransition(a, b) ==
    \/ <<a, b>> \in { <<PENDING_DOWNLOAD, DOWNLOADING>>, <<DOWNLOADING, PENDING_CONVERT>>,
                      <<PENDING_CONVERT, CONVERTING>>, <<CONVERTING, COMPLETED>>,
                      <<DOWNLOADING, PENDING_DOWNLOAD>>, <<CONVERTING, PENDING_CONVERT>> }
    \/ a \notin Terminal /\ b = FAILED

\* C1: in every step of the workers and of the recovery, a job's stage stays
\* or changes by PENDING_DOWNLOAD->DOWNLOADING, DOWNLOADING->PENDING_CONVERT,
\* PENDING_CONVERT->CONVERTING, CONVERTING->COMPLETED, non-terminal->FAILED,
\* or a rollback DOWNLOADING->PENDING_DOWNLOAD, CONVERTING->PENDING_CONVERT;
\* a new job starts in PENDING_DOWNLOAD
C1_StageTransitions ==
    [][ /\ \A i \in DOMAIN jobs \cap DOMAIN jobs' :
              jobs'[i].stage = jobs[i].stage
              \/ AllowedTransition(jobs[i].stage, jobs'[i].stage)
        /\ \A i \in DOMAIN jobs' \ DOMAIN jobs : jobs'[i].stage = PENDING_DOWNLOAD ]_vars

\* a restart has rolled a converting job back, one job is completed with its
\* Book, the other has failed
C1_Witness ==
    /\ crashes >= 1 /\ phase = "running"
    /\ \E i \in InStage(COMPLETED), k \in InStage(FAILED) :
          /\ BookDir(i) \in get_all_book_paths(books)
          /\ SubdirExists(fs, k, "mp3")

\* C2: a job in COMPLETED or FAILED keeps its stage in every later step, and
\* no claim query hands it to a worker again
C2_TerminalAbsorbing ==
    [][ \A i \in DOMAIN jobs :
          jobs[i].stage \in Terminal =>
              /\ i \in DOMAIN jobs' /\ jobs'[i].stage = jobs[i].stage
              /\ dl'.job.id = i => dl.job.id = i
              /\ cv'.job.id = i => cv.job.id = i ]_vars

\* after a restart with a failed and a completed job in the store, the
\* workers are polling again
C2_Witness ==
    /\ crashes >= 1 /\ phase = "running"
    /\ InStage(FAILED) # {} /\ InStage(COMPLETED) # {}
    /\ dl.pc = "poll" /\ cv.pc = "poll"

\* C3: in every store state each job's status is running for DOWNLOADING and
\* CONVERTING, pending for PENDING_DOWNLOAD and PENDING_CONVERT, completed
\* for COMPLETED and failed for FAILED
C3_StatusFromStage ==
    \A i \in DOMAIN jobs :
        jobs[i].status = CASE jobs[i].stage \in {DOWNLOADING, CONVERTING} -> RUNNING
                           [] jobs[i].stage \in {PENDING_DOWNLOAD, PENDING_CONVERT} -> PENDING
                           [] jobs[i].stage = COMPLETED -> COMPLETED
                           [] jobs[i].stage = FAILED -> FAILED

\* one job is converting while the other has been requeued by the rollback
C3_Witness ==
    /\ crashes >= 1
    /\ \E i \in InStage(CONVERTING), k \in InStage(PENDING_DOWNLOAD) : DirExists(fs, k)

\* C4: every job in FAILED has status failed and a non-empty error text
C4_FailedHasError ==
    \A i \in InStage(FAILED) :
        jobs[i].status = FAILED /\ jobs[i].error \notin {NULL, ""}

ProgressArgs == {0, 50, 95, 100}
DetailArgs == {NULL, "Chapter 1 / 2"}

\* C5: a job in COMPLETED has progress 100 and no detail, and advancing any
\* job of the store to COMPLETED gives progress 100 and no detail whatever
\* progress and detail are passed and whatever the row held before
C5_CompletedForcesProgress ==
    /\ \A i \in InStage(COMPLETED) :
          jobs[i].progress = 100 /\ jobs[i].progress_detail = NULL
    /\ \A i \in DOMAIN jobs, progress \in ProgressArgs, detail \in DetailArgs :
          LET row == update_job_stage(jobs, i, COMPLETED, progress, NULL, detail)[i]
          IN  row.stage = COMPLETED /\ row.progress = 100 /\ row.progress_detail = NULL

\* one job is completed while the other holds a chapter detail below 100
C5_Witness ==
    \E i \in InStage(COMPLETED), k \in DOMAIN jobs :
        jobs[k].progress_detail # NULL /\ jobs[k].progress < 100

\* C6: a rollback that returned leaves every job that was DOWNLOADING in
\* PENDING_DOWNLOAD with progress 0 and no detail, every job that was
\* CONVERTING in PENDING_CONVERT with progress 50 and no detail, and no job
\* in DOWNLOADING or CONVERTING
C6_Rollback ==
    [][ (phase = "reset" /\ phase' = "sweep" /\ reset_ok') =>
          \A i \in DOMAIN jobs :
              /\ jobs[i].stage = DOWNLOADING =>
                    /\ jobs'[i].stage = PENDING_DOWNLOAD
                    /\ jobs'[i].progress = 0 /\ jobs'[i].progress_detail = NULL
              /\ jobs[i].stage = CONVERTING =>
                    /\ jobs'[i].stage = PENDING_CONVERT
                    /\ jobs'[i].progress = 50 /\ jobs'[i].progress_detail = NULL
              /\ jobs'[i].stage \notin {DOWNLOADING, CONVERTING} ]_vars

\* the rollback has just requeued a job that was downloading (its directory
\* exists) and one that was converting (its mp3 directory exists)
C6_Witness ==
    /\ phase = "sweep" /\ reset_ok
    /\ \E i \in InStage(PENDING_DOWNLOAD), k \in InStage(PENDING_CONVERT) :
          /\ DirExists(fs, i) /\ jobs[i].progress = 0
          /\ SubdirExists(fs, k, "mp3") /\ jobs[k].progress = 50

\* C7: when the artifact root holds a job directory A whose path is a Book
\* path and a job directory B that has no Book, the sweep keeps A and
\* removes B
C7_OrphanSweep ==
    [][ (phase = "sweep" /\ phase' = "running") =>
          \A A \in DOMAIN fs, B \in DOMAIN fs :
              (/\ BookDir(A) \in get_all_book_paths(books)
               /\ BookDir(B) \notin get_all_book_paths(books))
              => (A \in DOMAIN fs' /\ B \notin DOMAIN fs') ]_vars

\* C8: the sweep starts only when no job is left in DOWNLOADING or
\* CONVERTING, and no worker has claimed a job before the sweep has finished
C8_RollbackBeforeSweep ==
    /\ phase = "sweep" => InStage(DOWNLOADING) \cup InStage(CONVERTING) = {}
    /\ phase # "running" => dl.pc = "poll" /\ cv.pc = "poll"

\* C9: the job a worker has just claimed is the one created first (the
\* lowest id) among the jobs in the stage it polls
C9_CreationOrder ==
    /\ dl.pc = "claimed" => \A k \in InStage(PENDING_DOWNLOAD) : dl.job.id <= k
    /\ cv.pc = "claimed" => \A k \in InStage(PENDING_CONVERT) : cv.job.id <= k

\* C10: a worker goes from its claim into processing only with the job in
\* the store in the worker's running stage, and directories and Book records
\* are created only for jobs that are in the store
C10_ClaimAllOrNothing ==
    [][ /\ (dl.pc = "claimed" /\ dl'.pc = "mkdir") =>
              (dl.job.id \in DOMAIN jobs' /\ jobs'[dl.job.id].stage = DOWNLOADING)
        /\ (cv.pc = "claimed" /\ cv'.pc = "load") =>
              (cv.job.id \in DOMAIN jobs' /\ jobs'[cv.job.id].stage = CONVERTING)
        /\ \A d \in DOMAIN fs' \ DOMAIN fs : d \in DOMAIN jobs'
        /\ books' # books => cv.job.id \in DOMAIN jobs' ]_vars

\* the chapter outputs of the running transcode stage that were on disk
\* before it started: present, and not written by this run
Reused ==
    {i \in DOMAIN cv.tasks :
        /\ SubdirExists(fs, cv.job.id, "mp3")
        /\ OutputName(i, cv.chapters[i]) \in DOMAIN fs[cv.job.id].dirs["mp3"]
        /\ i \notin cv.invoked}

\* C11: while the transcode stage of a job with M flattened chapters runs,
\* the external tool is started only for chapters whose output is missing,
\* an output that existed before the stage is neither rewritten nor deleted,
\* and when the stage leaves the pool it has made exactly M - N invocations,
\* N being the number of outputs that existed before
C11_ChapterIdempotence ==
    [][ cv.pc \in {"pool", "drain"} =>
          LET id == cv.job.id
              mp3 == fs[id].dirs["mp3"]
              out(i) == OutputName(i, cv.chapters[i])
          IN  /\ \A i \in Reused :
                    /\ SubdirExists(fs', id, "mp3")
                    /\ out(i) \in DOMAIN fs'[id].dirs["mp3"]
                    /\ fs'[id].dirs["mp3"][out(i)] = mp3[out(i)]
                    /\ i \notin cv'.invoked
              /\ \A i \in cv'.invoked \ cv.invoked : out(i) \notin DOMAIN mp3
              /\ cv'.pc \in {"package", "failing"} =>
                    Cardinality(cv.invoked) = Len(cv.chapters) - Cardinality(Reused) ]_vars

\* the pool has finished for a job of which one chapter output was on disk
\* and one was missing
C11_Witness ==
    /\ cv.pc = "package" /\ cv.chapters # <<>>
    /\ Reused # {} /\ cv.invoked # {}

\* C12: across a restart the completely written chapter outputs of a job
\* that is requeued for conversion survive the sweep, and when the transcode
\* stage of the re-run leaves the pool every output it reused is a complete
\* one and it has made exactly M - N invocations, N being the number of
\* complete outputs
C12_CrashRerunReusesChapters ==
    [][ /\ (phase = "sweep" /\ phase' = "running") =>
              \A i \in InStage(PENDING_CONVERT) :
                  SubdirExists(fs, i, "mp3") =>
                      \A f \in DOMAIN fs[i].dirs["mp3"] :
                          fs[i].dirs["mp3"][f] = "full" =>
                              /\ SubdirExists(fs', i, "mp3")
                              /\ f \in DOMAIN fs'[i].dirs["mp3"]
        /\ (crashes >= 1 /\ cv.pc \in {"pool", "drain"}
                /\ cv'.pc \in {"package", "failing"}) =>
              /\ \A i \in Reused :
                    fs[cv.job.id].dirs["mp3"][OutputName(i, cv.chapters[i])] = "full"
              /\ Cardinality(cv.invoked) = Len(cv.chapters) - Cardinality(Reused) ]_vars

\* C13: the Convert Worker writes the archive before it advances the job to
\* COMPLETED, and it upserts the Book only for a job that is already in
\* COMPLETED at progress 100
C13_CompletionOrder ==
    [][ /\ \A i \in DOMAIN jobs \cap DOMAIN jobs' :
              (jobs[i].stage # COMPLETED /\ jobs'[i].stage = COMPLETED) =>
                  FileExists(fs, i, "audiobook.zip")
        /\ books' # books =>
              /\ cv.job.id \in InStage(COMPLETED)
              /\ jobs[cv.job.id].progress = 100
              /\ FileExists(fs, cv.job.id, "audiobook.zip") ]_vars

\* C14: whenever a Book exists for a user and a content id, some job of
\* that user for that content id is in COMPLETED
C14_BookOnlyOnCompletion ==
    \A b \in books :
        \E i \in InStage(COMPLETED) :
            jobs[i].user_id = b.user_id /\ jobs[i].asin = b.asin

\* C15: the Book table never holds two rows for one user and content id; a
\* completion leaves exactly one row for the job's user and content id, with
\* the job's directory, title and author, and leaves the rows of every other
\* user or content id as they were
C15_BookUpsert ==
    [][ /\ \A a \in books', b \in books' :
              (a.user_id = b.user_id /\ a.asin = b.asin) => a = b
        /\ books' # books =>
              LET job == cv.job
                  Mine(b) == b.user_id = job.user_id /\ b.asin = job.asin
              IN  /\ {b \in books' : Mine(b)} =
                        {[user_id |-> job.user_id, asin |-> job.asin,
                          title |-> job.title, author |-> cv.meta.authors,
                          path |-> BookDir(job.id)]}
                  /\ {b \in books' : ~Mine(b)} = {b \in books : ~Mine(b)} ]_vars

\* two jobs of one user for one content id, submitted with different titles,
\* are both completed, and the only Book has the directory and title of the
\* second
C15_Witness ==
    /\ {1, 2} \subseteq InStage(COMPLETED)
    /\ jobs[1].user_id = jobs[2].user_id /\ jobs[1].asin = jobs[2].asin
    /\ jobs[1].title # jobs[2].title
    /\ \E b \in books :
          /\ books = {b}
          /\ b.path = BookDir(2) /\ b.title = jobs[2].title

\* C16: when every external call succeeds, a job is handed over to
\* PENDING_CONVERT from DOWNLOADING at progress 50 and converted only from
\* there; the step that completes it comes from CONVERTING, writes progress
\* 100, follows exactly M transcode invocations for the M flattened chapters
\* of its chapter document, and finds a Book of the job's user and content
\* id whose path is the job's directory, which holds a non-empty archive;
\* and every submitted job is eventually completed
C16_EndToEnd ==
    /\ [][ \A i \in DOMAIN jobs \cap DOMAIN jobs' :
              /\ (jobs[i].stage # PENDING_CONVERT /\ jobs'[i].stage = PENDING_CONVERT) =>
                    jobs[i].stage = DOWNLOADING /\ jobs'[i].progress = 50
              /\ (jobs[i].stage # CONVERTING /\ jobs'[i].stage = CONVERTING) =>
                    jobs[i].stage = PENDING_CONVERT /\ jobs[i].progress = 50
              /\ (jobs[i].stage # COMPLETED /\ jobs'[i].stage = COMPLETED) =>
                    /\ jobs[i].stage = CONVERTING /\ jobs'[i].progress = 100
                    /\ cv.job.id = i
                    /\ Cardinality(cv.invoked) =
                          Len(_flatten_chapters(fs[i].files["chapters.json"], NULL))
                    /\ \E b \in books' :
                          /\ b.user_id = jobs[i].user_id /\ b.asin = jobs[i].asin
                          /\ b.path = BookDir(i)
                    /\ FileExists(fs', i, "audiobook.zip")
                    /\ fs'[i].files["audiobook.zip"] # {} ]_vars
    /\ \A i \in 1..MaxJobs :
          [](i \in DOMAIN jobs => <>(i \in InStage(COMPLETED)))

\* both jobs are completed with their two chapter outputs in the archive
C16_Witness ==
    /\ InStage(COMPLETED) = {1, 2}
    /\ \A i \in {1, 2} :
          /\ jobs[i].progress = 100
          /\ Cardinality(fs[i].files["audiobook.zip"]) = 3

\* C17: under fair scheduling of the startup and of both workers, with store
\* writes that succeed, every submitted job eventually is in COMPLETED or
\* FAILED, whatever else is queued and across the restarts
C17_EveryJobTerminates ==
    \A i \in 1..MaxJobs :
        [](i \in DOMAIN jobs => <>(i \in InStage(COMPLETED) \cup InStage(FAILED)))

\* after a restart both jobs have ended, one completed and one failed
C17_Witness ==
    /\ crashes >= 1 /\ phase = "running"
    /\ DOMAIN jobs = {1, 2}
    /\ InStage(COMPLETED) # {} /\ InStage(FAILED) # {}
    /\ dl.pc = "poll" /\ cv.pc = "poll"
    /\ \E i \in DOMAIN jobs : jobs[i].error = FfmpegError

\* C18: a step in which the Download Worker ends its work on a claimed job
\* through an exception (the write of DOWNLOADING raised, or the except
\* branch ran) leaves the job in FAILED, with the exception's message where
\* the except branch ran; a job being failed is still in DOWNLOADING
C18_DownloadFailureFails ==
    [][ /\ (dl.pc \in {"claimed", "failing"} /\ dl'.pc = "poll" /\ crashes' = crashes) =>
              /\ dl.job.id \in InStage(FAILED)'
              /\ dl.pc = "failing" => jobs'[dl.job.id].error = dl.err
        /\ dl.pc = "failing" => jobs[dl.job.id].stage = DOWNLOADING ]_vars

\* the messages of the stage-fatal conditions of the convert stage
ConvertFatal ==
    {"Metadata file not found", "Missing voucher file", "Missing AAXC key/iv",
     "Expecting value: line 1 column 1 (char 0)", "Could not get activation bytes",
     FfmpegError}

\* no archive in the job's directory and no Book for it
NothingProduced(fsys, bs, i) ==
    /\ ~FileExists(fsys, i, "audiobook.zip")
    /\ BookDir(i) \notin get_all_book_paths(bs)

\* what C19 says of one state
C19_State(js, fsys, bs, c) ==
    /\ (\E t \in DOMAIN c.tasks : c.tasks[t] = "failed") =>
          c.pc \in {"pool", "drain", "failing"}
    /\ c.pc = "failing" =>
          /\ js[c.job.id].stage = CONVERTING
          /\ c.err \in ConvertFatal
          /\ NothingProduced(fsys, bs, c.job.id)
    /\ \A i \in DOMAIN js :
          (js[i].stage = FAILED /\ js[i].error \in ConvertFatal) =>
              NothingProduced(fsys, bs, i)

\* C19: a missing handoff document, a missing or incomplete voucher in
\* voucher mode, an unresolvable activation token and a non-zero exit of the
\* external tool each take the Convert Worker into its except branch with
\* the causing message; the except branch leaves the job in FAILED with that
\* message; such a job stays in FAILED and has neither archive nor Book
C19_FatalConvertFails ==
    [][ /\ C19_State(jobs, fs, books, cv) /\ C19_State(jobs', fs', books', cv')
        /\ (cv.pc = "load" /\ cv' # cv /\ ~FileExists(fs, cv.job.id, "meta.json")) =>
              cv'.pc = "failing" /\ cv'.err = "Metadata file not found"
        /\ (cv.pc = "params" /\ cv' # cv /\ cv.meta.is_aaxc
                /\ ~FileExists(fs, cv.job.id, "voucher.json")) =>
              cv'.pc = "failing" /\ cv'.err = "Missing voucher file"
        /\ (cv.pc = "params" /\ cv' # cv /\ cv.meta.is_aaxc
                /\ FileExists(fs, cv.job.id, "voucher.json")
                /\ fs[cv.job.id].files["voucher.json"] # "complete") =>
              /\ cv'.pc = "failing"
              /\ cv'.err \in {"Missing AAXC key/iv",
                               "Expecting value: line 1 column 1 (char 0)"}
        /\ (cv.pc = "failing" /\ cv'.pc = "poll") =>
              /\ jobs'[cv.job.id].stage = FAILED
              /\ jobs'[cv.job.id].error = cv.err
        /\ \A i \in DOMAIN jobs :
              (jobs[i].stage = FAILED /\ jobs[i].error \in ConvertFatal) =>
                  jobs'[i] = jobs[i] ]_vars

\* one job has failed for its missing handoff document, the other for an
\* exit status of the external tool
C19_Witness ==
    /\ InStage(FAILED) = {1, 2}
    /\ {jobs[1].error, jobs[2].error} = {"Metadata file not found", FfmpegError}
    /\ \A i \in {1, 2} : NothingProduced(fs, books, i)

\* every file and chapter output of directory i in fsys is in fsys2 too
NothingRemoved(fsys, fsys2, i) ==
    DirExists(fsys, i) =>
        /\ DirExists(fsys2, i)
        /\ DOMAIN fsys[i].files \subseteq DOMAIN fsys2[i].files
        /\ \A d \in DOMAIN fsys[i].dirs :
              /\ d \in DOMAIN fsys2[i].dirs
              /\ DOMAIN fsys[i].dirs[d] \subseteq DOMAIN fsys2[i].dirs[d]

\* the source file, the voucher and the chapter outputs of directory i in
\* fsys are in fsys2 as they were
ArtifactsKept(fsys, fsys2, i) ==
    DirExists(fsys, i) =>
        /\ DirExists(fsys2, i)
        /\ \A f \in DOMAIN fsys[i].files \cap {"audio.aaxc", "audio.aax", "voucher.json"} :
              f \in DOMAIN fsys2[i].files /\ fsys2[i].files[f] = fsys[i].files[f]
        /\ \A d \in DOMAIN fsys[i].dirs :
              /\ d \in DOMAIN fsys2[i].dirs
              /\ DOMAIN fsys[i].dirs[d] \subseteq DOMAIN fsys2[i].dirs[d]

\* C20: the step that moves a job to FAILED changes nothing on disk; the
\* step in which a worker's exception is raised keeps the job's directory
\* with its source file, voucher and chapter outputs; and from the exception
\* to the FAILED write nothing is removed from the directory
C20_FailureKeepsFiles ==
    [][ /\ (\E i \in DOMAIN jobs \cap DOMAIN jobs' :
                jobs[i].stage # FAILED /\ jobs'[i].stage = FAILED) => fs' = fs
        /\ (dl.pc # "failing" /\ dl'.pc = "failing") => ArtifactsKept(fs, fs', dl.job.id)
        /\ (cv.pc \notin {"drain", "failing"} /\ cv'.pc \in {"drain", "failing"}) =>
              ArtifactsKept(fs, fs', cv.job.id)
        /\ dl.pc = "failing" => NothingRemoved(fs, fs', dl.job.id)
        /\ cv.pc \in {"drain", "failing"} => NothingRemoved(fs, fs', cv.job.id) ]_vars

\* one job has failed in the download with half of its source file written,
\* the other in the conversion with its voucher, its source file and a
\* complete chapter output on disk
C20_Witness ==
    \E i \in InStage(FAILED), k \in InStage(FAILED) :
        /\ FileExists(fs, i, "audio.aaxc") /\ fs[i].files["audio.aaxc"].bytes = 1
        /\ ~FileExists(fs, i, "meta.json")
        /\ jobs[k].error = FfmpegError
        /\ FileExists(fs, k, "voucher.json")
        /\ FileExists(fs, k, "audio.aaxc") /\ fs[k].files["audio.aaxc"].bytes = TotalChunks
        /\ SubdirExists(fs, k, "mp3")
        /\ \E f \in DOMAIN fs[k].dirs["mp3"] : fs[k].dirs["mp3"][f] = "full"

\* the nodes of a chapter tree in pre-order, each with the titles of its
\* ancestors from the root down
RECURSIVE PreOrder(_, _)
PreOrder(nodes, anc) ==
    IF nodes = <<>> THEN <<>>
    ELSE LET n == Head(nodes)
         IN  <<[node |-> n, anc |-> anc]>>
             \o (IF HasChildren(n)
                 THEN PreOrder(n.chapters, Append(anc, Get(n, "title", "")))
                 ELSE <<>>)
             \o PreOrder(Tail(nodes), anc)

StartOf(n) == Get(n, "start_offset_ms", 0)

\* first_child.start - node.start of a node with nested chapters
IntroGap(n) == StartOf(n.chapters[1]) - StartOf(n)

\* a node that stands for a segment: a leaf, or a parent with an intro
Produces(e) == ~HasChildren(e.node) \/ IntroGap(e.node) > 100

Producers(doc) == SelectSeq(PreOrder(doc, <<>>), Produces)

\* the chapter document of the job the Convert Worker has flattened
FlattenedDoc == fs[cv.job.id].files["chapters.json"]

\* C21: the flattened list has as many segments as the chapter document has
\* leaves plus parents whose first nested chapter starts more than 100 ms
\* after them, and its segments start where these nodes start, in pre-order
C21_FlattenCountOrder ==
    cv.pc = "pool" =>
        LET all == PreOrder(FlattenedDoc, <<>>)
            leaves == {k \in DOMAIN all : ~HasChildren(all[k].node)}
            intros == {k \in DOMAIN all :
                          HasChildren(all[k].node) /\ IntroGap(all[k].node) > 100}
            prod == Producers(FlattenedDoc)
        IN  /\ Len(cv.chapters) = Cardinality(leaves) + Cardinality(intros)
            /\ \A k \in DOMAIN cv.chapters :
                  StartOf(cv.chapters[k]) = StartOf(prod[k].node)

\* a document of depth three with two intros and three leaves is flattened
C21_Witness ==
    /\ cv.pc = "pool" /\ Len(cv.chapters) = 5
    /\ Len(FlattenedDoc) = 1 /\ HasChildren(FlattenedDoc[1])
    /\ HasChildren(FlattenedDoc[1].chapters[1])

\* C22: when no chapter of the document has nested chapters the flattened
\* list has the document's length and order and each segment the title
\* (empty when the chapter has none), start offset and length of its
\* chapter; and flattening the flattened list of any document returns it
C22_FlatUnchanged ==
    cv.pc = "pool" =>
        /\ (\A k \in DOMAIN FlattenedDoc : ~HasChildren(FlattenedDoc[k])) =>
              /\ Len(cv.chapters) = Len(FlattenedDoc)
              /\ \A k \in DOMAIN FlattenedDoc :
                    /\ cv.chapters[k].title = Get(FlattenedDoc[k], "title", "")
                    /\ cv.chapters[k].start_offset_ms = FlattenedDoc[k].start_offset_ms
                    /\ cv.chapters[k].length_ms = FlattenedDoc[k].length_ms
        /\ _flatten_chapters(cv.chapters, NULL) = cv.chapters

\* a document of two chapters without nested chapters, the second of
\* length 0, is flattened
C22_Witness ==
    /\ cv.pc = "pool" /\ Len(FlattenedDoc) = 2
    /\ \A k \in DOMAIN FlattenedDoc : ~HasChildren(FlattenedDoc[k])
    /\ FlattenedDoc[2].length_ms = 0
    /\ Len(cv.chapters) = 2

RECURSIVE JoinTitles(_)
JoinTitles(titles) ==
    IF titles = <<>> THEN ""
    ELSE IF Len(titles) = 1 THEN titles[1]
    ELSE titles[1] \o " - " \o JoinTitles(Tail(titles))

RECURSIVE DropLeadingEmpty(_)
DropLeadingEmpty(titles) ==
    IF titles = <<>> THEN <<>>
    ELSE IF titles[1] = "" THEN DropLeadingEmpty(Tail(titles))
    ELSE titles

\* the titles from the root to the node of an entry of PreOrder
TitleChain(e) == Append(e.anc, Get(e.node, "title", ""))

\* the title the flattener gives the segment of an entry of PreOrder
QualifiedTitle(e) == JoinTitles(DropLeadingEmpty(TitleChain(e)))

\* C23: a node with nested chapters stands for a segment exactly when its
\* first nested chapter starts more than 100 ms after it; the segment has
\* only the node's qualified title, the node's start and that difference as
\* length, and is followed at once by the first segment of its nested
\* chapters
C23_IntroRule ==
    cv.pc = "pool" =>
        LET prod == Producers(FlattenedDoc)
        IN  /\ Len(cv.chapters) = Len(prod)
            /\ \A k \in DOMAIN prod :
                  HasChildren(prod[k].node) =>
                      /\ cv.chapters[k] =
                            [title |-> QualifiedTitle(prod[k]),
                             start_offset_ms |-> StartOf(prod[k].node),
                             length_ms |-> IntroGap(prod[k].node)]
                      /\ k < Len(cv.chapters)
                      /\ StartOf(cv.chapters[k + 1]) =
                            StartOf(Producers(prod[k].node.chapters)[1].node)

\* a document is flattened in which one node is 101 ms and another exactly
\* 100 ms ahead of its first nested chapter
C23_Witness ==
    /\ cv.pc = "pool"
    /\ LET all == PreOrder(FlattenedDoc, <<>>)
       IN  /\ \E k \in DOMAIN all :
                 HasChildren(all[k].node) /\ IntroGap(all[k].node) = 101
           /\ \E k \in DOMAIN all :
                 HasChildren(all[k].node) /\ IntroGap(all[k].node) = 100
           /\ \E k \in DOMAIN cv.chapters : cv.chapters[k].length_ms = 101

\* C24 as stated: every segment's title is the titles of all its ancestors
\* and its own, from the root, joined by " - ", empty titles included
C24_AllAncestorsJoined ==
    cv.pc = "pool" =>
        LET prod == Producers(FlattenedDoc)
        IN  \A k \in DOMAIN cv.chapters :
                cv.chapters[k].title = JoinTitles(TitleChain(prod[k]))

\* C24: every segment's title is the titles of its ancestors and its own,
\* from the root, joined by " - ", where the empty titles that come before
\* the first non-empty title of the chain are left out
C24_TitleQualified ==
    cv.pc = "pool" =>
        LET prod == Producers(FlattenedDoc)
        IN  \A k \in DOMAIN cv.chapters :
                cv.chapters[k].title = QualifiedTitle(prod[k])

\* a document of depth three whose root has an empty title is flattened to
\* a segment qualified by its parent's title
C24_Witness ==
    /\ cv.pc = "pool"
    /\ LET prod == Producers(FlattenedDoc)
       IN  \E k \in DOMAIN cv.chapters :
               /\ prod[k].anc = <<"", "P">>
               /\ cv.chapters[k].title = "P - c"

\* the counter a progress detail reports for a job of total chapters: 0 when
\* there is no detail, total + 1 when the detail is not a chapter count
CounterOf(detail, total) ==
    IF detail = NULL THEN 0
    ELSE IF \E n \in 1..total : detail = ConvertDetail(n, total)
         THEN CHOOSE n \in 1..total : detail = ConvertDetail(n, total)
    ELSE total + 1

\* C25: while the chapters of a job are converted every write to its row
\* raises the reported counter by one, from none to "Chapter 1 / M" up to
\* "Chapter M / M", with a progress within 50..95 that does not decrease;
\* every completion that is taken from the pool is written; and the job
\* goes on to packaging from "Chapter M / M" at progress 95
C25_ProgressSerialized ==
    [][(cv.pc = "pool") =>
          LET id == cv.job.id
              M == Len(cv.chapters)
              n == CounterOf(jobs[id].progress_detail, M)
          IN  /\ jobs'[id] # jobs[id] =>
                    /\ n < M
                    /\ jobs'[id].progress_detail = ConvertDetail(n + 1, M)
                    /\ jobs'[id].stage = CONVERTING
                    /\ jobs'[id].progress >= jobs[id].progress
                    /\ jobs'[id].progress \in 50..95
              /\ (cv'.pc \in {"pool", "package"} /\ cv'.seen # cv.seen) =>
                    jobs'[id] # jobs[id]
              /\ cv'.pc = "package" =>
                    /\ jobs'[id].progress_detail = ConvertDetail(M, M)
                    /\ jobs'[id].progress = 95
                    /\ n + 1 = M]_vars

\* both chapters of a job are written as done, one of them skipped because
\* its output existed, and the job goes on to packaging
C25_Witness ==
    /\ cv.pc = "package" /\ Len(cv.chapters) = 2
    /\ Cardinality(cv.invoked) = 1
    /\ jobs[cv.job.id].progress_detail = ConvertDetail(2, 2)
    /\ jobs[cv.job.id].progress = 95

\* C26: the Convert Worker writes COMPLETED or FAILED for its job, goes on
\* to packaging, or lets go of the job only when every chapter task of the
\* job has finished (the death of the process apart); no transcode runs
\* when the job is marked FAILED
C26_FanIn ==
    [][(crashes' = crashes /\ cv.job.id \in DOMAIN jobs /\ cv.job.id \in DOMAIN jobs'
        /\ \/ (jobs'[cv.job.id].stage \in {COMPLETED, FAILED}
                /\ jobs'[cv.job.id].stage # jobs[cv.job.id].stage)
           \/ (cv'.pc = "package" /\ cv.pc # "package")
           \/ cv'.job # cv.job)
       => Finished(cv.tasks) = DOMAIN cv.tasks]_vars

\* a chapter failed, its failure was taken from the pool while the other
\* chapter was still transcoded, and the job is about to be marked FAILED
C26_Witness ==
    /\ cv.pc = "failing" /\ cv.err = FfmpegError
    /\ Len(cv.tasks) = 2 /\ cv.seen = {1}
    /\ cv.tasks[1] = "failed" /\ cv.tasks[2] = "done" /\ cv.invoked = {1, 2}

\* C27: a worker that is processing a job comes back to its claim query,
\* whatever was raised on the way, and a worker at its claim query claims a
\* job when one is queued for its stage
C27_LoopPollsAgain ==
    /\ (dl.pc # "poll") ~> (dl.pc = "poll")
    /\ (cv.pc # "poll") ~> (cv.pc = "poll")
    /\ (phase = "running" /\ dl.pc = "poll"
          /\ get_job_by_stage(jobs, PENDING_DOWNLOAD) # {}) ~> (dl.pc = "claimed")
    /\ (phase = "running" /\ cv.pc = "poll"
          /\ get_job_by_stage(jobs, PENDING_CONVERT) # {}) ~> (cv.pc = "claimed")

\* the write that marks the first job FAILED raised, the job is left in
\* DOWNLOADING, and the Download Worker has claimed the second job
C27_Witness ==
    /\ dl.pc = "claimed" /\ dl.job.id = 2
    /\ 1 \in DOMAIN jobs /\ jobs[1].stage = DOWNLOADING
    /\ crashes = 0

\* a worker thread that is processing a job
InJob(w) == w.pc # "poll"

\* C28: a job that a worker is processing when its flag is cleared reaches
\* the outcome of the stage (the download PENDING_CONVERT or FAILED, the
\* conversion COMPLETED or FAILED), and from then on the worker holds no
\* other job
C28_StopLetsJobFinish ==
    \A j \in 1..MaxJobs :
        /\ (~DownloadRunning /\ InJob(dl) /\ dl.job.id = j)
              ~> (j \in DOMAIN jobs
                    /\ jobs[j].stage \notin {PENDING_DOWNLOAD, DOWNLOADING})
        /\ (~ConvertRunning /\ InJob(cv) /\ cv.job.id = j)
              ~> (j \in DOMAIN jobs /\ jobs[j].stage \in {COMPLETED, FAILED})
        /\ []((~DownloadRunning /\ InJob(dl) /\ dl.job.id = j)
                => [](dl.job.id \in {j, 0}))
        /\ []((~ConvertRunning /\ InJob(cv) /\ cv.job.id = j)
                => [](cv.job.id \in {j, 0}))

\* C29: when only the steps that obtain chapter metadata and cover art may
\* fail, every job that is queued for download reaches PENDING_CONVERT at
\* progress 50 with its meta.json written
C29_DegradedHandoff ==
    \A j \in 1..MaxJobs :
        (j \in DOMAIN jobs /\ jobs[j].stage = PENDING_DOWNLOAD)
            ~> (/\ j \in DOMAIN jobs
                /\ jobs[j].stage = PENDING_CONVERT
                /\ jobs[j].progress = 50
                /\ FileExists(fs, j, "meta.json"))

\* C30: a handoff document with the voucher flag set stands beside a source
\* file fetched from the voucher-mode URL and a voucher document written to
\* its end; one with the flag not set stands beside the legacy-mode file,
\* fetched from the legacy URL
C30_ModeConsistent ==
    \A id \in DOMAIN fs :
        FileExists(fs, id, "meta.json") =>
            LET meta == fs[id].files["meta.json"] IN
                IF meta.is_aaxc
                THEN /\ FileExists(fs, id, "audio.aaxc")
                     /\ fs[id].files["audio.aaxc"].url = "aaxc"
                     /\ FileExists(fs, id, "voucher.json")
                     /\ fs[id].files["voucher.json"] \in {"complete", "incomplete"}
                ELSE /\ FileExists(fs, id, "audio.aax")
                     /\ fs[id].files["audio.aax"].url = "aax"

C32_ErrorOnlyWhenFailed ==
    \A j \in DOMAIN jobs : jobs[j].error # NULL => jobs[j].stage = FAILED

\* after a restart one job is FAILED with its error and another, requeued
\* by the rollback, is converted again without an error
C32_Witness ==
    /\ crashes = 1 /\ phase = "running" /\ reset_ok
    /\ \E j, k \in DOMAIN jobs :
          /\ jobs[j].stage = FAILED /\ jobs[j].error = FfmpegError
          /\ jobs[k].stage = CONVERTING /\ jobs[k].error = NULL
          /\ SubdirExists(fs, k, "mp3") /\ cv.pc = "load"

\* C33: once the packager has run, the entries of the archive are the names
\* of the files in the mp3 directory and cover.jpg when the cover exists,
\* whatever a prior attempt left as archive; packaging again would write
\* the same entries
C33_ArchiveReplaced ==
    cv.pc \in {"save", "complete"} =>
        /\ FileExists(fs, cv.job.id, "audiobook.zip")
        /\ fs[cv.job.id].files["audiobook.zip"] =
              DOMAIN fs[cv.job.id].dirs["mp3"]
                  \cup (IF "cover.jpg" \in DOMAIN fs[cv.job.id].files
                        THEN {"cover.jpg"} ELSE {})
        /\ fs[cv.job.id].files["audiobook.zip"] = ZipEntries(fs, cv.job.id)

\* after a restart the job was packaged again: two chapter files and no
\* cover
C33_Witness ==
    /\ crashes = 1 /\ cv.pc = "save"
    /\ ~FileExists(fs, cv.job.id, "cover.jpg")
    /\ Cardinality(fs[cv.job.id].files["audiobook.zip"]) = 2

\* C34: the rollback of reset_stuck_jobs and the sweep of
\* cleanup_orphaned_directories take their steps only while no Download or
\* Convert worker thread is alive, whatever the order of the calls of
\* Worker.start() and Worker.stop()
C34_RecoveryAlone ==
    [][ ((phase = "reset" /\ phase' = "sweep") \/ (phase = "sweep" /\ phase' = "running"))
          => (~DlAlive /\ ~CvAlive) ]_vars

\* C35: at most one polling thread of each worker type is live, whatever
\* the order of the calls of start() and stop()
C35_OneThreadPerWorker ==
    /\ workers.dl_threads <= 1
    /\ workers.cv_threads <= 1

\* the source files in the artifact directory of job j
SourceFiles(j) == {AudioName(TRUE), AudioName(FALSE)} \cap DOMAIN fs[j].files

\* C36: a job in PENDING_CONVERT has a source file, and every source file
\* in its directory holds all bytes of the download, also when the process
\* died while the file was streamed and the job was processed again
C36_SourceComplete ==
    \A j \in DOMAIN jobs :
        jobs[j].stage = PENDING_CONVERT =>
            /\ SourceFiles(j) # {}
            /\ \A f \in SourceFiles(j) : fs[j].files[f].bytes = TotalChunks

\* C37: the sweep leaves, in every job directory that is a Book's path, the
\* mp3 subdirectory with all its chapter files and the archive as they were
C37_SweepKeepsBook ==
    [][ (phase = "sweep" /\ phase' = "running") =>
          \A A \in DOMAIN fs :
              BookDir(A) \in get_all_book_paths(books) =>
                  /\ A \in DOMAIN fs'
                  /\ SubdirExists(fs, A, "mp3") =>
                        /\ SubdirExists(fs', A, "mp3")
                        /\ fs'[A].dirs["mp3"] = fs[A].dirs["mp3"]
                  /\ FileExists(fs, A, "audiobook.zip") =>
                        /\ FileExists(fs', A, "audiobook.zip")
                        /\ fs'[A].files["audiobook.zip"] = fs[A].files["audiobook.zip"] ]_vars

\* C38: once Worker.start() has started the workers, at most one job is in
\* DOWNLOADING and at most one job is in CONVERTING, whether the rollback of
\* reset_stuck_jobs succeeded or raised
C38_OneJobPerStage ==
    phase = "running" =>
        /\ Cardinality(InStage(DOWNLOADING)) <= 1
        /\ Cardinality(InStage(CONVERTING)) <= 1

\* C39: the progress of every job is an integer in 0..100; it is in 0..45
\* while the job is in DOWNLOADING, whatever byte counts the stream
\* reports, 50 in PENDING_CONVERT, in 50..95 in CONVERTING and 100 in
\* COMPLETED
C39_ProgressBands ==
    \A j \in DOMAIN jobs :
        /\ jobs[j].progress \in 0..100
        /\ jobs[j].stage = DOWNLOADING => jobs[j].progress \in 0..45
        /\ jobs[j].stage = PENDING_CONVERT => jobs[j].progress = 50
        /\ jobs[j].stage = CONVERTING => jobs[j].progress \in 50..95
        /\ jobs[j].stage = COMPLETED => jobs[j].progress = 100

\* the columns of a job row other than stage, status, progress and
\* progress_detail
OtherFields(job) ==
    <<job.user_id, job.asin, job.title, job.error, job.created_at, job.completed_at>>

\* C40: a rollback that commits leaves every job that is in
\* PENDING_DOWNLOAD, PENDING_CONVERT, COMPLETED or FAILED as it is, changes
\* only stage, status, progress and progress detail of the jobs it requeues,
\* leaves the Books and the set of jobs as they are, and changes nothing
\* when it is run again
C40_RollbackFrame ==
    [][ (phase = "reset" /\ phase' = "sweep" /\ reset_ok') =>
          /\ DOMAIN jobs' = DOMAIN jobs
          /\ books' = books
          /\ \A j \in DOMAIN jobs :
                /\ jobs[j].stage \notin {DOWNLOADING, CONVERTING} => jobs'[j] = jobs[j]
                /\ OtherFields(jobs'[j]) = OtherFields(jobs[j])
          /\ reset_stuck_jobs(jobs') = jobs' ]_vars

\* after a process death the rollback has requeued a job that was being
\* converted, next to a job that had failed
C40_Witness ==
    /\ phase = "sweep" /\ reset_ok /\ crashes = 1
    /\ \E j \in InStage(PENDING_CONVERT), k \in InStage(FAILED) :
          /\ cv.pc = "poll"
          /\ SubdirExists(fs, j, "mp3")
          /\ jobs[j].progress = 50 /\ jobs[j].progress_detail = NULL
          /\ jobs[k].error # NULL

====
